---- MODULE Spec2Model ----
(***************************************************************************)
(* Rectangular K2-tree (KrKcTree<E> and its bool specialisation) of        *)
(* StaticBasicRectangularTree.hpp: the builders that produce the packed    *)
(* sequences T and L, and the navigation over them.                        *)
(*                                                                         *)
(* C++ vectors are 0-indexed; TLA+ sequences are 1-indexed.  Every index   *)
(* computed below is the C++ index, and At/Put add the offset.             *)
(***************************************************************************)
EXTENDS Integers, Sequences, FiniteSets, TLC

\* ---------------------------------------------------------------- bounds
MaxRows == 5
MaxCols == 2
MaxEntries == 2
MaxSetNull == 1

\* arities, element values and null values the constructors are called with
Arities == {<<2, 2>>, <<2, 3>>, <<3, 2>>}
\* row counts of the matrices and lists, rows of the triples: with kr = 2 they
\* give the heights 1, 2 and 3
RowCounts == {1, 3, MaxRows}
PairRows == {0, 2, MaxRows - 1}
Elems == {0, 1, 2}
Nulls == {0, 1}

\* ---------------------------------------------------------------- helpers
At(s, i) == s[i + 1]
Put(s, i, v) == [s EXCEPT ![i + 1] = v]

RECURSIVE Pow(_, _)
Pow(k, e) == IF e = 0 THEN 1 ELSE k * Pow(k, e - 1)

Max2(a, b) == IF a >= b THEN a ELSE b
Max3(a, b, c) == Max2(a, Max2(b, c))

\* Utility.hpp (not in src/): integer logarithm, rounded up
RECURSIVE logKFrom(_, _, _)
logKFrom(n, k, e) == IF Pow(k, e) >= n THEN e ELSE logKFrom(n, k, e + 1)
logK(n, k) == logKFrom(n, k, 0)

\* Utility.hpp (not in src/): "all equal to null?" and "all zero?"
isAll(C, null) == \A x \in 1..Len(C) : C[x] = null
isAllZero(C) == \A x \in 1..Len(C) : C[x] = FALSE

\* rank_type (not in src/): number of 1-bits in T[0..pos)
rank(Tv, pos) == Cardinality({x \in 0..(pos - 1) : At(Tv, x)})

RECURSIVE Fill(_, _)
Fill(n, v) == IF n <= 0 THEN <<>> ELSE Append(Fill(n - 1, v), v)
\* the tuple f[1], ..., f[n] of a function over 1..n
RECURSIVE AsTuple(_, _)
AsTuple(f, n) == IF n <= 0 THEN <<>> ELSE Append(AsTuple(f, n - 1), f[n])
InsertAt(s, pos, grp) == SubSeq(s, 1, pos) \o grp \o SubSeq(s, pos + 1, Len(s))

RECURSIVE Flatten(_)
Flatten(ss) == IF Len(ss) = 0 THEN <<>> ELSE Flatten(SubSeq(ss, 1, Len(ss) - 1)) \o ss[Len(ss)]

\* child slot of cell (p, q) in a node that spans numRows x numCols
slot(t, numRows, numCols, p, q) ==
    (p \div (numRows \div t.kr)) * t.kc + q \div (numCols \div t.kc)

\* the fields every constructor sets before it builds
\* slip: the padded dimensions have to exceed the extent
Dimension_strict(et, kr, kc, null, R, C) ==
    LET h == Max3(1, logK(R + 1, kr), logK(C + 1, kc))
    IN [et |-> et, kr |-> kr, kc |-> kc, h |-> h,
        numRows |-> Pow(kr, h), numCols |-> Pow(kc, h), null |-> null,
        T |-> <<>>, L |-> <<>>, ub |-> FALSE, thrown |-> FALSE]
Dimension(et, kr, kc, null, R, C) ==
    LET h == Max3(1, logK(R, kr), logK(C, kc))
    IN [et |-> et, kr |-> kr, kc |-> kc, h |-> h,
        numRows |-> Pow(kr, h), numCols |-> Pow(kc, h), null |-> null,
        T |-> <<>>, L |-> <<>>, ub |-> FALSE, thrown |-> FALSE]

\* ------------------------------------------------ Mode M (dense matrix)
matRows(mat) == Len(mat)
matCols(mat) == Len(mat[1])

\* slip: the kr*kc cells of a leaf group read column by column
matLeaf_colMajor(t, mat, p, q, dflt) ==
    AsTuple([s \in 1..(t.kr * t.kc) |->
                LET i == (s - 1) % t.kr
                    j == (s - 1) \div t.kr
                IN IF (p + i) < matRows(mat) /\ (q + j) < matCols(mat)
                   THEN mat[p + i + 1][q + j + 1] ELSE dflt], t.kr * t.kc)
matLeaf(t, mat, p, q, dflt) ==
    AsTuple([s \in 1..(t.kr * t.kc) |->
                LET i == (s - 1) \div t.kc
                    j == (s - 1) % t.kc
                IN IF (p + i) < matRows(mat) /\ (q + j) < matCols(mat)
                   THEN mat[p + i + 1][q + j + 1] ELSE dflt], t.kr * t.kc)

RECURSIVE buildFromMatrix(_, _, _, _, _, _, _, _)
RECURSIVE buildFromMatrixLoop(_, _, _, _, _, _, _, _, _, _)
buildFromMatrix(t, mat, st, numRows, numCols, l, p, q) ==
    IF l = t.h
    THEN LET C == matLeaf(t, mat, p, q, t.null)
         IN IF isAll(C, t.null) THEN [st EXCEPT !.ret = FALSE]
            ELSE [st EXCEPT !.L = @ \o C, !.ret = TRUE]
    ELSE LET fin == buildFromMatrixLoop(t, mat, st, numRows, numCols, l, p, q, 0, <<>>)
         IN IF isAllZero(fin.C) THEN [fin.st EXCEPT !.ret = FALSE]
            ELSE [fin.st EXCEPT !.levels[l] = @ \o fin.C, !.ret = TRUE]
buildFromMatrixLoop(t, mat, st, numRows, numCols, l, p, q, s, C) ==
    IF Len(C) = t.kr * t.kc THEN [st |-> st, C |-> C]
    ELSE LET i == s \div t.kc
             j == s % t.kc
             r == buildFromMatrix(t, mat, st, numRows \div t.kr, numCols \div t.kc, l + 1,
                                  p + i * (numRows \div t.kr), q + j * (numCols \div t.kc))
         IN buildFromMatrixLoop(t, mat, r, numRows, numCols, l, p, q, s + 1, Append(C, r.ret))

KrKcTree_mat(mat, kr, kc, null) ==
    LET t == Dimension("generic", kr, kc, null, matRows(mat), matCols(mat))
        st == buildFromMatrix(t, mat, [levels |-> Fill(t.h - 1, <<>>), L |-> <<>>, ret |-> FALSE],
                              t.numRows, t.numCols, 1, 0, 0)
    IN [t EXCEPT !.T = Flatten(st.levels), !.L = st.L]

\* bool specialisation: the leaf level is levels[h - 1] and becomes L
RECURSIVE buildFromMatrixBool(_, _, _, _, _, _, _, _)
RECURSIVE buildFromMatrixBoolLoop(_, _, _, _, _, _, _, _, _, _)
buildFromMatrixBool(t, mat, st, numRows, numCols, l, p, q) ==
    LET fin == IF l = t.h
               THEN [st |-> st, C |-> matLeaf(t, mat, p, q, FALSE)]
               ELSE buildFromMatrixBoolLoop(t, mat, st, numRows, numCols, l, p, q, 0, <<>>)
    IN IF isAllZero(fin.C) THEN [fin.st EXCEPT !.ret = FALSE]
       ELSE [fin.st EXCEPT !.levels[l] = @ \o fin.C, !.ret = TRUE]
buildFromMatrixBoolLoop(t, mat, st, numRows, numCols, l, p, q, s, C) ==
    IF Len(C) = t.kr * t.kc THEN [st |-> st, C |-> C]
    ELSE LET i == s \div t.kc
             j == s % t.kc
             r == buildFromMatrixBool(t, mat, st, numRows \div t.kr, numCols \div t.kc, l + 1,
                                      p + i * (numRows \div t.kr), q + j * (numCols \div t.kc))
         IN buildFromMatrixBoolLoop(t, mat, r, numRows, numCols, l, p, q, s + 1, Append(C, r.ret))

\* slip: the copy of the levels into T starts at the second level
levelsToT_skipTop(t, levels) == Flatten(SubSeq(levels, 2, t.h - 1))
levelsToT(t, levels) == Flatten(SubSeq(levels, 1, t.h - 1))

KrKcTreeBool_mat(mat, kr, kc) ==
    LET t == Dimension("bool", kr, kc, FALSE, matRows(mat), matCols(mat))
        st == buildFromMatrixBool(t, mat, [levels |-> Fill(t.h, <<>>), ret |-> FALSE],
                                  t.numRows, t.numCols, 1, 0, 0)
    IN [t EXCEPT !.T = levelsToT(t, st.levels), !.L = st.levels[t.h]]

\* ------------------------------------------------ Mode L0 (lists, cursors)
\* A list is a sequence of <<column, value>>.  A cursor is a position in its
\* list: Len + 1 is end(), anything beyond is an iterator past the end, whose
\* increment and dereference are undefined.  g is what a dereference past
\* the end yields in this build: no match, or a match carrying some value.
Garbage == {[match |-> FALSE, val |-> 0]} \cup {[match |-> TRUE, val |-> v] : v \in Elems}
NoGarbage == [match |-> FALSE, val |-> 0]

\* C++ conversion of an element to bool in "if (C.back())"
Truthy(t, v) == IF t.et = "bool" THEN v ELSE v # 0

cursorRead(lists, g, cursors, row, col, null) ==
    IF row < Len(lists)
    THEN LET lst == lists[row + 1]
             cur == cursors[row + 1]
         IN IF cur = Len(lst) + 1 THEN null
            ELSE IF cur <= Len(lst)
                 THEN (IF col = lst[cur][1] THEN lst[cur][2] ELSE null)
                 ELSE (IF g.match THEN g.val ELSE null)
    ELSE null

cursorAdvance(lists, st, row) ==
    IF row < Len(lists)
    THEN [st EXCEPT !.cursors[row + 1] = @ + 1,
                    !.ub = @ \/ (st.cursors[row + 1] > Len(lists[row + 1]))]
    ELSE [st EXCEPT !.ub = TRUE]

RECURSIVE listsLeaf(_, _, _, _, _, _, _, _)
listsLeaf(t, lists, g, st, p, q, s, C) ==
    IF Len(C) = t.kr * t.kc THEN [st |-> st, C |-> C]
    ELSE LET i == s \div t.kc
             j == s % t.kc
             v == cursorRead(lists, g, st.cursors, p + i, q + j, t.null)
             st1 == IF Truthy(t, v) THEN cursorAdvance(lists, st, p + i) ELSE st
         IN listsLeaf(t, lists, g, st1, p, q, s + 1, Append(C, v))

RECURSIVE buildFromLists(_, _, _, _, _, _, _, _, _)
RECURSIVE buildFromListsLoop(_, _, _, _, _, _, _, _, _, _, _)
buildFromLists(t, lists, g, st, numRows, numCols, l, p, q) ==
    IF l = t.h
    THEN LET fin == listsLeaf(t, lists, g, st, p, q, 0, <<>>)
         IN IF isAll(fin.C, t.null) THEN [fin.st EXCEPT !.ret = FALSE]
            ELSE [fin.st EXCEPT !.L = @ \o fin.C, !.ret = TRUE]
    ELSE LET fin == buildFromListsLoop(t, lists, g, st, numRows, numCols, l, p, q, 0, <<>>)
         IN IF isAllZero(fin.C) THEN [fin.st EXCEPT !.ret = FALSE]
            ELSE [fin.st EXCEPT !.levels[l] = @ \o fin.C, !.ret = TRUE]
buildFromListsLoop(t, lists, g, st, numRows, numCols, l, p, q, s, C) ==
    IF Len(C) = t.kr * t.kc THEN [st |-> st, C |-> C]
    ELSE LET i == s \div t.kc
             j == s % t.kc
             r == buildFromLists(t, lists, g, st, numRows \div t.kr, numCols \div t.kc, l + 1,
                                 p + i * (numRows \div t.kr), q + j * (numCols \div t.kc))
         IN buildFromListsLoop(t, lists, g, r, numRows, numCols, l, p, q, s + 1, Append(C, r.ret))

RECURSIVE buildFromListsBool(_, _, _, _, _, _, _, _)
RECURSIVE buildFromListsBoolLoop(_, _, _, _, _, _, _, _, _, _)
buildFromListsBool(t, lists, st, numRows, numCols, l, p, q) ==
    LET fin == IF l = t.h
               THEN listsLeaf(t, lists, NoGarbage, st, p, q, 0, <<>>)
               ELSE buildFromListsBoolLoop(t, lists, st, numRows, numCols, l, p, q, 0, <<>>)
    IN IF isAllZero(fin.C) THEN [fin.st EXCEPT !.ret = FALSE]
       ELSE [fin.st EXCEPT !.levels[l] = @ \o fin.C, !.ret = TRUE]
buildFromListsBoolLoop(t, lists, st, numRows, numCols, l, p, q, s, C) ==
    IF Len(C) = t.kr * t.kc THEN [st |-> st, C |-> C]
    ELSE LET i == s \div t.kc
             j == s % t.kc
             r == buildFromListsBool(t, lists, st, numRows \div t.kr, numCols \div t.kc, l + 1,
                                     p + i * (numRows \div t.kr), q + j * (numCols \div t.kc))
         IN buildFromListsBoolLoop(t, lists, r, numRows, numCols, l, p, q, s + 1, Append(C, r.ret))

\* maxCol of the list-of-lists constructors, already incremented
RECURSIVE SeqMax(_, _)
SeqMax(xs, m) == IF xs = <<>> THEN m ELSE SeqMax(Tail(xs), Max2(m, Head(xs)))
listsMaxCol(lists) ==
    SeqMax(Flatten([i \in 1..Len(lists) |->
                AsTuple([j \in 1..Len(lists[i]) |-> lists[i][j][1]], Len(lists[i]))]), 0) + 1

DimensionLists(et, lists, kr, kc, null) ==
    Dimension(et, kr, kc, null, Len(lists), listsMaxCol(lists))

KrKcTree_lists0(lists, kr, kc, null, g) ==
    LET t == DimensionLists("generic", lists, kr, kc, null)
        st == buildFromLists(t, lists, g,
                             [levels |-> Fill(t.h - 1, <<>>), L |-> <<>>, ret |-> FALSE,
                              cursors |-> Fill(Len(lists), 1), ub |-> FALSE],
                             t.numRows, t.numCols, 1, 0, 0)
    IN [t EXCEPT !.T = Flatten(st.levels), !.L = st.L, !.ub = st.ub]

KrKcTreeBool_lists0(lists, kr, kc) ==
    LET t == DimensionLists("bool", lists, kr, kc, FALSE)
        st == buildFromListsBool(t, lists,
                                 [levels |-> Fill(t.h, <<>>), ret |-> FALSE,
                                  cursors |-> Fill(Len(lists), 1), ub |-> FALSE],
                                 t.numRows, t.numCols, 1, 0, 0)
    IN [t EXCEPT !.T = levelsToT(t, st.levels), !.L = st.levels[t.h], !.ub = st.ub]

\* ------------------------------------------------ Mode L1 (temporary tree)
\* Node<E> of Utility.hpp (not in src/).  A leaf carries a label; an internal
\* node carries kr*kc child slots, NoChild standing for the null pointer.
\* turnInternal(k, TRUE) makes the node a bottom-level node, every slot of
\* which holds a leaf labelled fill.
NoChild == [none |-> TRUE]
Node(label) == [leaf |-> TRUE, label |-> label, children |-> <<>>]
isLeaf(n) == n.leaf
getLabel(n) == n.label
getChild(n, i) == At(n.children, i)
hasChild(n, i) == getChild(n, i) # NoChild
turnInternal(n, k, leaves, fill) ==
    [n EXCEPT !.leaf = FALSE, !.children = Fill(k, IF leaves THEN Node(fill) ELSE NoChild)]
addChild(n, i, label) == [n EXCEPT !.children = Put(@, i, Node(label))]
setChild(n, i, c) == [n EXCEPT !.children = Put(@, i, c)]

\* label given to the internal nodes: null_ (generic), true (bool)
innerLabel(t) == IF t.et = "bool" THEN TRUE ELSE t.null

RECURSIVE insertNode(_, _, _, _, _, _, _)
insertNode(t, node, numRows, numCols, p, q, val) ==
    IF numRows = t.kr
    THEN LET n1 == IF isLeaf(node) THEN turnInternal(node, t.kr * t.kc, TRUE, t.null) ELSE node
         IN addChild(n1, p * t.kc + q, val)
    ELSE LET n1 == IF isLeaf(node) THEN turnInternal(node, t.kr * t.kc, FALSE, t.null) ELSE node
             z == slot(t, numRows, numCols, p, q)
             n2 == IF hasChild(n1, z) THEN n1 ELSE addChild(n1, z, innerLabel(t))
         IN setChild(n2, z, insertNode(t, getChild(n2, z), numRows \div t.kr, numCols \div t.kc,
                                       p % (numRows \div t.kr), q % (numCols \div t.kc), val))

\* the entries of a list-of-lists in insertion order: <<row, column, value>>
listsEntries(lists) ==
    Flatten([i \in 1..Len(lists) |->
                AsTuple([j \in 1..Len(lists[i]) |-> <<i - 1, lists[i][j][1], lists[i][j][2]>>],
                        Len(lists[i]))])

RECURSIVE insertAllNodes(_, _, _)
insertAllNodes(t, root, es) ==
    IF es = <<>> THEN root
    ELSE insertAllNodes(t, insertNode(t, root, t.numRows, t.numCols,
                                      Head(es)[1], Head(es)[2], Head(es)[3]), Tail(es))

\* breadth-first traversal: the loop over the queue and the loop over the slots
RECURSIVE traverse(_, _, _)
RECURSIVE traverseSlots(_, _, _, _)
traverse(t, queue, out) ==
    IF queue = <<>> THEN out
    ELSE LET r == traverseSlots(t, Head(queue), 0, [queue |-> Tail(queue), T |-> out.T, L |-> out.L])
         IN traverse(t, r.queue, [T |-> r.T, L |-> r.L])
\* slip: a leaf child also emits its bit into T
traverseSlots_leafBit(t, node, i, acc) ==
    IF i = t.kr * t.kc THEN acc
    ELSE LET child == getChild(node, i)
         IN IF child # NoChild /\ isLeaf(child)
            THEN traverseSlots(t, node, i + 1, [acc EXCEPT !.L = Append(@, getLabel(child)),
                                                           !.T = Append(@, TRUE)])
            ELSE traverseSlots(t, node, i + 1,
                    [acc EXCEPT !.T = Append(@, child # NoChild),
                                !.queue = IF child # NoChild THEN Append(@, child) ELSE @])
traverseSlots(t, node, i, acc) ==
    IF i = t.kr * t.kc THEN acc
    ELSE LET child == getChild(node, i)
         IN IF child # NoChild /\ isLeaf(child)
            THEN traverseSlots(t, node, i + 1, [acc EXCEPT !.L = Append(@, getLabel(child))])
            ELSE traverseSlots(t, node, i + 1,
                    [acc EXCEPT !.T = Append(@, child # NoChild),
                                !.queue = IF child # NoChild THEN Append(@, child) ELSE @])

buildFromListsViaTree(t, lists) ==
    LET root == insertAllNodes(t, Node(t.null), listsEntries(lists))
    IN IF ~isLeaf(root)
       THEN LET out == traverse(t, <<root>>, [T |-> <<>>, L |-> <<>>])
            IN [t EXCEPT !.T = out.T, !.L = out.L]
       ELSE t

\* ------------------------------------------------ Mode L2 (dynamic bitmaps)
\* NaiveDynamicRank of Utility.hpp (not in src/): the vector of the ranks,
\* ranks[pos] = number of 1-bits in T[0..pos), for pos = 0..|T|
NaiveDynamicRank(Tv) == AsTuple([x \in 1..(Len(Tv) + 1) |-> rank(Tv, x - 1)], Len(Tv) + 1)
dynRank(R, pos) == At(R, pos)
increaseFrom(R, pos) == AsTuple([x \in 1..Len(R) |-> IF x - 1 >= pos THEN R[x] + 1 ELSE R[x]], Len(R))
dynInsert(R, pos, num) == InsertAt(R, pos, Fill(num, At(R, pos - 1)))

\* what insert() stores in a leaf cell: the literal 1, in the generic class too
storedOne(t) == IF t.et = "bool" THEN TRUE ELSE 1

RECURSIVE insertDyn(_, _, _, _, _, _, _, _, _)
\* slip: a new leaf group is appended to L instead of spliced in at its index
insertDyn_appendLeaf(t, st, numRows, numCols, p, q, val, z, l) ==
    IF ~At(st.T, z)
    THEN LET T1 == Put(st.T, z, TRUE)
             R1 == increaseFrom(st.R, z + 1)
             base == dynRank(R1, z + 1) * t.kr * t.kc
             y == base + slot(t, numRows, numCols, p, q)
         IN IF (l + 1) = t.h
            THEN LET L1 == st.L \o Fill(t.kr * t.kc, t.null)
                 IN [T |-> T1, R |-> R1, L |-> Put(L1, y - Len(T1), storedOne(t))]
            ELSE LET T2 == InsertAt(T1, base, Fill(t.kr * t.kc, FALSE))
                     R2 == dynInsert(R1, base + 1, t.kr * t.kc)
                 IN insertDyn(t, [T |-> T2, R |-> R2, L |-> st.L],
                              numRows \div t.kr, numCols \div t.kc,
                              p % (numRows \div t.kr), q % (numCols \div t.kc), val, y, l + 1)
    ELSE LET y == dynRank(st.R, z + 1) * t.kr * t.kc + slot(t, numRows, numCols, p, q)
         IN IF (l + 1) = t.h
            THEN [st EXCEPT !.L = Put(@, y - Len(st.T), storedOne(t))]
            ELSE insertDyn(t, st, numRows \div t.kr, numCols \div t.kc,
                           p % (numRows \div t.kr), q % (numCols \div t.kc), val, y, l + 1)
\* slip: a new leaf group is put in front of L instead of spliced in at its index
insertDyn_leafFront(t, st, numRows, numCols, p, q, val, z, l) ==
    IF ~At(st.T, z)
    THEN LET T1 == Put(st.T, z, TRUE)
             R1 == increaseFrom(st.R, z + 1)
             base == dynRank(R1, z + 1) * t.kr * t.kc
             y == base + slot(t, numRows, numCols, p, q)
         IN IF (l + 1) = t.h
            THEN LET L1 == Fill(t.kr * t.kc, t.null) \o st.L
                 IN [T |-> T1, R |-> R1, L |-> Put(L1, y - Len(T1), storedOne(t))]
            ELSE LET T2 == InsertAt(T1, base, Fill(t.kr * t.kc, FALSE))
                     R2 == dynInsert(R1, base + 1, t.kr * t.kc)
                 IN insertDyn(t, [T |-> T2, R |-> R2, L |-> st.L],
                              numRows \div t.kr, numCols \div t.kc,
                              p % (numRows \div t.kr), q % (numCols \div t.kc), val, y, l + 1)
    ELSE LET y == dynRank(st.R, z + 1) * t.kr * t.kc + slot(t, numRows, numCols, p, q)
         IN IF (l + 1) = t.h
            THEN [st EXCEPT !.L = Put(@, y - Len(st.T), storedOne(t))]
            ELSE insertDyn(t, st, numRows \div t.kr, numCols \div t.kc,
                           p % (numRows \div t.kr), q % (numCols \div t.kc), val, y, l + 1)
insertDyn(t, st, numRows, numCols, p, q, val, z, l) ==
    IF ~At(st.T, z)
    THEN LET T1 == Put(st.T, z, TRUE)
             R1 == increaseFrom(st.R, z + 1)
             base == dynRank(R1, z + 1) * t.kr * t.kc
             y == base + slot(t, numRows, numCols, p, q)
         IN IF (l + 1) = t.h
            THEN LET L1 == InsertAt(st.L, base - Len(T1), Fill(t.kr * t.kc, t.null))
                 IN [T |-> T1, R |-> R1, L |-> Put(L1, y - Len(T1), storedOne(t))]
            ELSE LET T2 == InsertAt(T1, base, Fill(t.kr * t.kc, FALSE))
                     R2 == dynInsert(R1, base + 1, t.kr * t.kc)
                 IN insertDyn(t, [T |-> T2, R |-> R2, L |-> st.L],
                              numRows \div t.kr, numCols \div t.kc,
                              p % (numRows \div t.kr), q % (numCols \div t.kc), val, y, l + 1)
    ELSE LET y == dynRank(st.R, z + 1) * t.kr * t.kc + slot(t, numRows, numCols, p, q)
         IN IF (l + 1) = t.h
            THEN [st EXCEPT !.L = Put(@, y - Len(st.T), storedOne(t))]
            ELSE insertDyn(t, st, numRows \div t.kr, numCols \div t.kc,
                           p % (numRows \div t.kr), q % (numCols \div t.kc), val, y, l + 1)

insertInit(t, st, p, q, val) ==
    LET st1 == IF st.T = <<>>
               THEN [st EXCEPT !.T = Fill(t.kr * t.kc, FALSE),
                               !.R = NaiveDynamicRank(Fill(t.kr * t.kc, FALSE))]
               ELSE st
    IN insertDyn(t, st1, t.numRows \div t.kr, t.numCols \div t.kc,
                 p % (t.numRows \div t.kr), q % (t.numCols \div t.kc), val,
                 slot(t, t.numRows, t.numCols, p, q), 1)

RECURSIVE insertAllDyn(_, _, _)
insertAllDyn(t, st, es) ==
    IF es = <<>> THEN st
    ELSE insertAllDyn(t, insertInit(t, st, Head(es)[1], Head(es)[2], Head(es)[3]), Tail(es))

RECURSIVE writeAll(_, _, _)
writeAll(t, Lv, es) ==
    IF es = <<>> THEN Lv
    ELSE writeAll(t, Put(Lv, Head(es)[1] * t.kc + Head(es)[2],
                         IF t.et = "bool" THEN TRUE ELSE Head(es)[3]), Tail(es))

buildFromListsDynamicBitmaps(t, lists) ==
    IF t.h = 1
    THEN LET Lv == writeAll(t, Fill(t.kr * t.kc, t.null), listsEntries(lists))
         IN [t EXCEPT !.L = IF isAll(Lv, t.null) THEN <<>> ELSE Lv]
    ELSE LET st == insertAllDyn(t, [T |-> <<>>, R |-> <<>>, L |-> <<>>], listsEntries(lists))
         IN [t EXCEPT !.T = st.T, !.L = st.L]

KrKcTree_lists(lists, kr, kc, md, null, g) ==
    IF md = 0 THEN KrKcTree_lists0(lists, kr, kc, null, g)
    ELSE IF md = 1 THEN buildFromListsViaTree(DimensionLists("generic", lists, kr, kc, null), lists)
    ELSE buildFromListsDynamicBitmaps(DimensionLists("generic", lists, kr, kc, null), lists)

KrKcTreeBool_lists(lists, kr, kc, md) ==
    IF md = 0 THEN KrKcTreeBool_lists0(lists, kr, kc)
    ELSE IF md = 1 THEN buildFromListsViaTree(DimensionLists("bool", lists, kr, kc, FALSE), lists)
    ELSE buildFromListsDynamicBitmaps(DimensionLists("bool", lists, kr, kc, FALSE), lists)

\* ------------------------------------------------ Mode P (pairs, in place)
\* a pair is [row, col, val]; a subproblem is
\* [firstRow, lastRow, firstCol, lastCol, left, right]
Subproblem(fr, lr, fc, lc, left, right) ==
    [firstRow |-> fr, lastRow |-> lr, firstCol |-> fc, lastCol |-> lc,
     left |-> left, right |-> right]

\* elem_type(): the value-initialised element
DefaultElem == 0
defaultElem(t) == IF t.et = "bool" THEN FALSE ELSE DefaultElem

computeKey(t, pair, sp, widthRow, widthCol) ==
    ((pair.row - sp.firstRow) \div widthRow) * t.kc + (pair.col - sp.firstCol) \div widthCol

\* the slice [left, right) of pairs, in order, restricted to one key
RECURSIVE withKey_reversed(_, _, _, _, _, _, _)
\* slip: the sort is not stable, a key's pairs come out in reverse order
withKey_reversed(t, pairs, sp, widthRow, widthCol, key, i) ==
    IF i >= sp.right THEN <<>>
    ELSE withKey_reversed(t, pairs, sp, widthRow, widthCol, key, i + 1)
         \o (IF computeKey(t, At(pairs, i), sp, widthRow, widthCol) = key
             THEN <<At(pairs, i)>> ELSE <<>>)
RECURSIVE withKey(_, _, _, _, _, _, _)
withKey(t, pairs, sp, widthRow, widthCol, key, i) ==
    IF i >= sp.right THEN <<>>
    ELSE (IF computeKey(t, At(pairs, i), sp, widthRow, widthCol) = key
          THEN <<At(pairs, i)>> ELSE <<>>)
         \o withKey(t, pairs, sp, widthRow, widthCol, key, i + 1)

\* stable counting sort of pairs[left, right) by key; intervals[key] is the
\* half-open range of the key inside the slice
countingSort(t, pairs, sp, widthRow, widthCol, sup) ==
    LET groups == AsTuple([key \in 1..sup |-> withKey(t, pairs, sp, widthRow, widthCol, key - 1, sp.left)], sup)
        starts == [key \in 1..sup |-> Len(Flatten(SubSeq(groups, 1, key - 1)))]
        sorted == Flatten(groups)
    IN [pairs |-> SubSeq(pairs, 1, sp.left) \o sorted \o SubSeq(pairs, sp.right + 1, Len(pairs)),
        intervals |-> AsTuple([key \in 1..sup |-> <<starts[key], starts[key] + Len(groups[key])>>], sup)]

RECURSIVE scatter(_, _, _, _, _)
scatter(t, pairs, sp, i, appToL) ==
    IF i >= sp.right THEN appToL
    ELSE scatter(t, pairs, sp, i + 1,
                 Put(appToL, (At(pairs, i).row - sp.firstRow) * t.kc
                             + (At(pairs, i).col - sp.firstCol),
                     IF t.et = "bool" THEN TRUE ELSE At(pairs, i).val))

RECURSIVE splitChildren(_, _, _, _, _, _, _)
splitChildren(t, sp, Sr, Sc, intervals, i, acc) ==
    IF i = t.kr * t.kc THEN acc
    ELSE IF At(intervals, i)[1] < At(intervals, i)[2]
         THEN splitChildren(t, sp, Sr, Sc, intervals, i + 1,
                [acc EXCEPT !.T = Append(@, TRUE),
                            !.queue = Append(@, Subproblem(
                                sp.firstRow + (i \div t.kc) * (Sr \div t.kr),
                                sp.firstRow + ((i \div t.kc) + 1) * (Sr \div t.kr) - 1,
                                sp.firstCol + (i % t.kc) * (Sc \div t.kc),
                                sp.firstCol + ((i % t.kc) + 1) * (Sc \div t.kc) - 1,
                                sp.left + At(intervals, i)[1],
                                sp.left + At(intervals, i)[2]))])
         ELSE splitChildren(t, sp, Sr, Sc, intervals, i + 1, [acc EXCEPT !.T = Append(@, FALSE)])

RECURSIVE inplaceLoop(_, _)
inplaceLoop(t, st) ==
    IF st.queue = <<>> THEN st
    ELSE LET sp == Head(st.queue)
             Sr == sp.lastRow - sp.firstRow + 1
             Sc == sp.lastCol - sp.firstCol + 1
         IN IF Sr > t.kr
            THEN LET cs == countingSort(t, st.pairs, sp, Sr \div t.kr, Sc \div t.kc, t.kr * t.kc)
                     r == splitChildren(t, sp, Sr, Sc, cs.intervals, 0,
                                        [T |-> st.T, queue |-> Tail(st.queue)])
                 IN inplaceLoop(t, [st EXCEPT !.pairs = cs.pairs, !.T = r.T, !.queue = r.queue])
            ELSE inplaceLoop(t, [st EXCEPT !.queue = Tail(@),
                    !.L = @ \o scatter(t, st.pairs, sp, sp.left,
                                       Fill(t.kr * t.kc, defaultElem(t)))])

buildFromListsInplace(t, pairs) ==
    LET st == inplaceLoop(t, [pairs |-> pairs, T |-> <<>>, L |-> <<>>,
                queue |-> <<Subproblem(0, t.numRows - 1, 0, t.numCols - 1, 0, Len(pairs))>>])
    IN [t EXCEPT !.T = st.T, !.L = st.L]

pairsMax(pairs, f) ==
    SeqMax(AsTuple([x \in 1..Len(pairs) |-> IF f = "row" THEN pairs[x].row ELSE pairs[x].col], Len(pairs)), 0)

\* slip: the builder also runs on an empty list of pairs
KrKcTree_pairs_alwaysBuild(et, pairs, kr, kc, null) ==
    LET t == Dimension(et, kr, kc, null, pairsMax(pairs, "row") + 1, pairsMax(pairs, "col") + 1)
    IN buildFromListsInplace(t, pairs)
KrKcTree_pairs(et, pairs, kr, kc, null) ==
    LET t == Dimension(et, kr, kc, null, pairsMax(pairs, "row") + 1, pairsMax(pairs, "col") + 1)
    IN IF Len(pairs) # 0 THEN buildFromListsInplace(t, pairs) ELSE t

\* ------------------------------------------------ windowed constructors
\* checkParameters: TRUE when it throws
\* slip: only the number of rows is compared
checkParameters_rowsOnly(t, nr, nc) == t.numRows # nr
checkParameters(t, nr, nc) == (t.numRows # nr) \/ (t.numCols # nc)

\* the constructor prologue of the windowed constructors, up to the check
DimensionWindow(et, kr, kc, null, nr, nc) ==
    LET t == Dimension(et, kr, kc, null, nr, nc)
    IN [t EXCEPT !.thrown = checkParameters(t, nr, nc)]

KrKcTree_matWindow(et, mat, x, y, nr, nc, kr, kc, null) ==
    LET t == DimensionWindow(et, kr, kc, null, nr, nc)
    IN IF t.thrown THEN t
       ELSE IF et = "bool"
       THEN LET st == buildFromMatrixBool(t, mat, [levels |-> Fill(t.h, <<>>), ret |-> FALSE],
                                          t.numRows, t.numCols, 1, x, y)
            IN [t EXCEPT !.T = levelsToT(t, st.levels), !.L = st.levels[t.h]]
       ELSE LET st == buildFromMatrix(t, mat,
                                      [levels |-> Fill(t.h - 1, <<>>), L |-> <<>>, ret |-> FALSE],
                                      t.numRows, t.numCols, 1, x, y)
            IN [t EXCEPT !.T = Flatten(st.levels), !.L = st.L]

\* "while ((rowIter != iter->end()) && (rowIter->first < y)) rowIter++"
RECURSIVE skipBelow(_, _, _)
skipBelow(lst, y, cur) ==
    IF cur <= Len(lst) /\ lst[cur][1] < y THEN skipBelow(lst, y, cur + 1) ELSE cur
windowCursors(lists, y) ==
    AsTuple([i \in 1..Len(lists) |-> skipBelow(lists[i], y, 1)], Len(lists))

\* the entries the windowed loops of modes 1 and 2 insert, in loop order:
\* <<row - x, column - y, value>>
windowEntries(lists, x, y, nr, nc) ==
    Flatten([i \in 1..Len(lists) |->
        IF x <= i - 1 /\ i - 1 < x + nr
        THEN Flatten([j \in 1..Len(lists[i]) |->
                IF y <= lists[i][j][1] /\ lists[i][j][1] < y + nc
                THEN << <<i - 1 - x, lists[i][j][1] - y, lists[i][j][2]>> >> ELSE <<>>])
        ELSE <<>>])

RECURSIVE insertAllNodesIn(_, _, _, _, _)
insertAllNodesIn(t, root, nr, nc, es) ==
    IF es = <<>> THEN root
    ELSE insertAllNodesIn(t, insertNode(t, root, nr, nc, Head(es)[1], Head(es)[2], Head(es)[3]),
                          nr, nc, Tail(es))

buildFromListsViaTree_window(t, lists, x, y, nr, nc) ==
    LET root == insertAllNodesIn(t, Node(t.null), nr, nc, windowEntries(lists, x, y, nr, nc))
    IN IF ~isLeaf(root)
       THEN LET out == traverse(t, <<root>>, [T |-> <<>>, L |-> <<>>])
            IN [t EXCEPT !.T = out.T, !.L = out.L]
       ELSE t

buildFromListsDynamicBitmaps_window(t, lists, x, y, nr, nc) ==
    IF t.h = 1
    THEN LET Lv == writeAll(t, Fill(t.kr * t.kc, t.null), windowEntries(lists, x, y, nr, nc))
         IN [t EXCEPT !.L = IF isAll(Lv, t.null) THEN <<>> ELSE Lv]
    ELSE LET st == insertAllDyn(t, [T |-> <<>>, R |-> <<>>, L |-> <<>>],
                                windowEntries(lists, x, y, nr, nc))
         IN [t EXCEPT !.T = st.T, !.L = st.L]

KrKcTree_listsWindow(et, lists, x, y, nr, nc, kr, kc, md, null, g) ==
    LET t == DimensionWindow(et, kr, kc, null, nr, nc)
    IN IF t.thrown THEN t
       ELSE IF md = 0
       THEN (IF et = "bool"
             THEN LET st == buildFromListsBool(t, lists,
                                [levels |-> Fill(t.h, <<>>), ret |-> FALSE,
                                 cursors |-> windowCursors(lists, y), ub |-> FALSE],
                                t.numRows, t.numCols, 1, x, y)
                  IN [t EXCEPT !.T = levelsToT(t, st.levels), !.L = st.levels[t.h], !.ub = st.ub]
             ELSE LET st == buildFromLists(t, lists, g,
                                [levels |-> Fill(t.h - 1, <<>>), L |-> <<>>, ret |-> FALSE,
                                 cursors |-> windowCursors(lists, y), ub |-> FALSE],
                                t.numRows, t.numCols, 1, x, y)
                  IN [t EXCEPT !.T = Flatten(st.levels), !.L = st.L, !.ub = st.ub])
       ELSE IF md = 1 THEN buildFromListsViaTree_window(t, lists, x, y, nr, nc)
       ELSE buildFromListsDynamicBitmaps_window(t, lists, x, y, nr, nc)

buildFromListsInplace_window(t, pairs, x, y, nr, nc, l, r) ==
    LET st == inplaceLoop(t, [pairs |-> pairs, T |-> <<>>, L |-> <<>>,
                queue |-> <<Subproblem(x, x + nr - 1, y, y + nc - 1, l, r)>>])
    IN [t EXCEPT !.T = st.T, !.L = st.L]

KrKcTree_pairsWindow(et, pairs, x, y, nr, nc, l, r, kr, kc, null) ==
    LET t == DimensionWindow(et, kr, kc, null, nr, nc)
    IN IF t.thrown THEN t
       ELSE IF l # r THEN buildFromListsInplace_window(t, pairs, x, y, nr, nc, l, r) ELSE t

\* ------------------------------------------------ point queries
RECURSIVE check(_, _, _, _, _, _)
\* slip: the leaf value is compared with 0 instead of null_
check_zero(t, numRows, numCols, p, q, z) ==
    IF z >= Len(t.T) THEN At(t.L, z - Len(t.T)) # 0
    ELSE IF At(t.T, z)
         THEN check(t, numRows \div t.kr, numCols \div t.kc,
                    p % (numRows \div t.kr), q % (numCols \div t.kc),
                    rank(t.T, z + 1) * t.kr * t.kc + slot(t, numRows, numCols, p, q))
         ELSE FALSE
check(t, numRows, numCols, p, q, z) ==
    IF z >= Len(t.T) THEN At(t.L, z - Len(t.T)) # t.null
    ELSE IF At(t.T, z)
         THEN check(t, numRows \div t.kr, numCols \div t.kc,
                    p % (numRows \div t.kr), q % (numCols \div t.kc),
                    rank(t.T, z + 1) * t.kr * t.kc + slot(t, numRows, numCols, p, q))
         ELSE FALSE
checkInit(t, p, q) ==
    IF t.L = <<>> THEN FALSE
    ELSE check(t, t.numRows \div t.kr, t.numCols \div t.kc,
               p % (t.numRows \div t.kr), q % (t.numCols \div t.kc),
               slot(t, t.numRows, t.numCols, p, q))

RECURSIVE get(_, _, _, _, _, _)
get(t, numRows, numCols, p, q, z) ==
    IF z >= Len(t.T) THEN At(t.L, z - Len(t.T))
    ELSE IF At(t.T, z)
         THEN get(t, numRows \div t.kr, numCols \div t.kc,
                  p % (numRows \div t.kr), q % (numCols \div t.kc),
                  rank(t.T, z + 1) * t.kr * t.kc + slot(t, numRows, numCols, p, q))
         ELSE t.null
getInit(t, p, q) ==
    IF t.L = <<>> THEN t.null
    ELSE get(t, t.numRows \div t.kr, t.numCols \div t.kc,
             p % (t.numRows \div t.kr), q % (t.numCols \div t.kc),
             slot(t, t.numRows, t.numCols, p, q))

\* ------------------------------------------------ setNull
RECURSIVE set(_, _, _, _, _, _)
\* slip: the cell is overwritten with the default element, not with null_
set_default(t, numRows, numCols, p, q, z) ==
    IF z >= Len(t.T) THEN Put(t.L, z - Len(t.T), defaultElem(t))
    ELSE IF At(t.T, z)
         THEN set(t, numRows \div t.kr, numCols \div t.kc,
                  p % (numRows \div t.kr), q % (numCols \div t.kc),
                  rank(t.T, z + 1) * t.kr * t.kc + slot(t, numRows, numCols, p, q))
         ELSE t.L
set(t, numRows, numCols, p, q, z) ==
    IF z >= Len(t.T) THEN Put(t.L, z - Len(t.T), t.null)
    ELSE IF At(t.T, z)
         THEN set(t, numRows \div t.kr, numCols \div t.kc,
                  p % (numRows \div t.kr), q % (numCols \div t.kc),
                  rank(t.T, z + 1) * t.kr * t.kc + slot(t, numRows, numCols, p, q))
         ELSE t.L
setInit(t, p, q) ==
    IF t.L # <<>>
    THEN set(t, t.numRows \div t.kr, t.numCols \div t.kc,
             p % (t.numRows \div t.kr), q % (t.numCols \div t.kc),
             slot(t, t.numRows, t.numCols, p, q))
    ELSE t.L

\* ------------------------------------------------ bool point query
RECURSIVE checkLink(_, _, _, _, _, _)
checkLink(t, numRows, numCols, p, q, z) ==
    IF z >= Len(t.T) THEN At(t.L, z - Len(t.T))
    ELSE IF At(t.T, z)
         THEN checkLink(t, numRows \div t.kr, numCols \div t.kc,
                        p % (numRows \div t.kr), q % (numCols \div t.kc),
                        rank(t.T, z + 1) * t.kr * t.kc + slot(t, numRows, numCols, p, q))
         ELSE FALSE
checkLinkInit(t, p, q) ==
    IF t.L = <<>> THEN FALSE
    ELSE checkLink(t, t.numRows \div t.kr, t.numCols \div t.kc,
                   p % (t.numRows \div t.kr), q % (t.numCols \div t.kc),
                   slot(t, t.numRows, t.numCols, p, q))

\* the leaf test of the row and column queries: "L_[y] != null_" in the
\* generic class, "L_[y]" in the bool specialisation
present(t, v) == IF t.et = "bool" THEN v ELSE v # t.null

\* ------------------------------------------------ getSuccessorPositions
SubrowInfo(dq, z) == [dq |-> dq, z |-> z]

\* one pass of "while (!queue.empty())": the next level's queue
expandLevel(t, queue, relP, nr, nc) ==
    Flatten([x \in 1..Len(queue) |->
        IF At(t.T, queue[x].z)
        THEN LET y == rank(t.T, queue[x].z + 1) * t.kr * t.kc + t.kc * (relP \div nr)
             IN AsTuple([j \in 1..t.kc |-> SubrowInfo(queue[x].dq + (j - 1) * nc, y + (j - 1))], t.kc)
        ELSE <<>>])

RECURSIVE levelLoop(_, _, _, _, _)
levelLoop(t, queue, relP, nr, nc) ==
    IF nr > 1
    THEN levelLoop(t, expandLevel(t, queue, relP, nr, nc), relP % nr, nr \div t.kr, nc \div t.kc)
    ELSE [queue |-> queue, relP |-> relP, nr |-> nr, nc |-> nc]

\* the last pass, which reads L
\* slip: the row offset inside the leaf group is dropped
leafPass_firstRow(t, queue, relP, nr, nc) ==
    Flatten([x \in 1..Len(queue) |->
        IF At(t.T, queue[x].z)
        THEN LET y == rank(t.T, queue[x].z + 1) * t.kr * t.kc - Len(t.T)
             IN Flatten([j \in 1..t.kc |->
                    IF present(t, At(t.L, y + (j - 1)))
                    THEN <<queue[x].dq + (j - 1) * nc>> ELSE <<>>])
        ELSE <<>>])
leafPass(t, queue, relP, nr, nc) ==
    Flatten([x \in 1..Len(queue) |->
        IF At(t.T, queue[x].z)
        THEN LET y == rank(t.T, queue[x].z + 1) * t.kr * t.kc + t.kc * (relP \div nr) - Len(t.T)
             IN Flatten([j \in 1..t.kc |->
                    IF present(t, At(t.L, y + (j - 1)))
                    THEN <<queue[x].dq + (j - 1) * nc>> ELSE <<>>])
        ELSE <<>>])

allSuccessorPositionsIterative(t, p) ==
    IF t.L = <<>> THEN <<>>
    ELSE IF Len(t.T) = 0
    THEN LET offset == p * t.numCols
         IN Flatten([x \in 1..t.numCols |->
                IF present(t, At(t.L, offset + (x - 1))) THEN <<x - 1>> ELSE <<>>])
    ELSE LET nr == t.numRows \div t.kr
             nc == t.numCols \div t.kc
             queue == AsTuple([j \in 1..t.kc |-> SubrowInfo((j - 1) * nc, t.kc * (p \div nr) + (j - 1))], t.kc)
             lv == levelLoop(t, queue, p % nr, nr \div t.kr, nc \div t.kc)
         IN leafPass(t, lv.queue, lv.relP, lv.nr, lv.nc)

\* ------------------------------------------------ getFirstSuccessor
ExtendedSubrowInfo(nr, nc, p, dq, z, j) ==
    [nr |-> nr, nc |-> nc, p |-> p, dq |-> dq, z |-> z, j |-> j]

RECURSIVE firstInRow(_, _, _)
firstInRow(t, offset, i) ==
    IF i >= t.numCols THEN t.numCols
    ELSE IF present(t, At(t.L, offset + i)) THEN i
    ELSE firstInRow(t, offset, i + 1)

\* the stack is a sequence whose last element is the top
RECURSIVE firstSuccessorLoop(_, _)
\* slip: a child frame starts at column offset 0 instead of its parent's dq
firstSuccessorLoop_dq0(t, stack) ==
    IF stack = <<>> THEN t.numCols
    ELSE LET n == Len(stack)
             cur == stack[n]
             adv == [stack EXCEPT ![n] = [cur EXCEPT !.dq = @ + cur.nc, !.z = @ + 1, !.j = @ + 1]]
         IN IF cur.j = t.kc THEN firstSuccessorLoop(t, SubSeq(stack, 1, n - 1))
            ELSE IF cur.z >= Len(t.T)
                 THEN (IF present(t, At(t.L, cur.z - Len(t.T))) THEN cur.dq
                       ELSE firstSuccessorLoop(t, adv))
                 ELSE IF At(t.T, cur.z)
                      THEN firstSuccessorLoop(t, Append(adv,
                              ExtendedSubrowInfo(cur.nr \div t.kr, cur.nc \div t.kc,
                                  cur.p % (cur.nr \div t.kr), 0,
                                  rank(t.T, cur.z + 1) * t.kr * t.kc
                                      + t.kc * (cur.p \div (cur.nr \div t.kr)), 0)))
                      ELSE firstSuccessorLoop(t, adv)
firstSuccessorLoop(t, stack) ==
    IF stack = <<>> THEN t.numCols
    ELSE LET n == Len(stack)
             cur == stack[n]
             adv == [stack EXCEPT ![n] = [cur EXCEPT !.dq = @ + cur.nc, !.z = @ + 1, !.j = @ + 1]]
         IN IF cur.j = t.kc THEN firstSuccessorLoop(t, SubSeq(stack, 1, n - 1))
            ELSE IF cur.z >= Len(t.T)
                 THEN (IF present(t, At(t.L, cur.z - Len(t.T))) THEN cur.dq
                       ELSE firstSuccessorLoop(t, adv))
                 ELSE IF At(t.T, cur.z)
                      THEN firstSuccessorLoop(t, Append(adv,
                              ExtendedSubrowInfo(cur.nr \div t.kr, cur.nc \div t.kc,
                                  cur.p % (cur.nr \div t.kr), cur.dq,
                                  rank(t.T, cur.z + 1) * t.kr * t.kc
                                      + t.kc * (cur.p \div (cur.nr \div t.kr)), 0)))
                      ELSE firstSuccessorLoop(t, adv)

firstSuccessorPositionIterative(t, p) ==
    IF t.L = <<>> THEN t.numCols
    ELSE IF Len(t.T) = 0 THEN firstInRow(t, p * t.numCols, 0)
    ELSE firstSuccessorLoop(t, <<ExtendedSubrowInfo(t.numRows \div t.kr, t.numCols \div t.kc,
                                    p % (t.numRows \div t.kr), 0,
                                    t.kc * (p \div (t.numRows \div t.kr)), 0)>>)

\* ------------------------------------------------ recursive row routines
RECURSIVE successorsPos(_, _, _, _, _, _)
successorsPos(t, numRows, numCols, p, q, z) ==
    IF z >= Len(t.T)
    THEN (IF present(t, At(t.L, z - Len(t.T))) THEN <<q>> ELSE <<>>)
    ELSE IF At(t.T, z)
         THEN LET y == rank(t.T, z + 1) * t.kr * t.kc + t.kc * (p \div (numRows \div t.kr))
              IN Flatten([j \in 1..t.kc |->
                    successorsPos(t, numRows \div t.kr, numCols \div t.kc,
                                  p % (numRows \div t.kr),
                                  q + (numCols \div t.kc) * (j - 1), y + (j - 1))])
         ELSE <<>>
successorsPosInit(t, p) ==
    IF t.L # <<>>
    THEN LET y == t.kc * (p \div (t.numRows \div t.kr))
         IN Flatten([j \in 1..t.kc |->
               successorsPos(t, t.numRows \div t.kr, t.numCols \div t.kc,
                             p % (t.numRows \div t.kr),
                             (t.numCols \div t.kc) * (j - 1), y + (j - 1))])
    ELSE <<>>

ValuedPosition(row, col, val) == [row |-> row, col |-> col, val |-> val]

RECURSIVE successorsValPos(_, _, _, _, _, _)
successorsValPos(t, numRows, numCols, p, q, z) ==
    IF z >= Len(t.T)
    THEN (IF present(t, At(t.L, z - Len(t.T)))
          THEN <<ValuedPosition(0, q, At(t.L, z - Len(t.T)))>> ELSE <<>>)
    ELSE IF At(t.T, z)
         THEN LET y == rank(t.T, z + 1) * t.kr * t.kc + t.kc * (p \div (numRows \div t.kr))
              IN Flatten([j \in 1..t.kc |->
                    successorsValPos(t, numRows \div t.kr, numCols \div t.kc,
                                     p % (numRows \div t.kr),
                                     q + (numCols \div t.kc) * (j - 1), y + (j - 1))])
         ELSE <<>>
\* slip: the row of the triples is not filled in after the recursion
successorsValPosInit_noBackfill(t, p) ==
    IF t.L # <<>>
    THEN LET y == t.kc * (p \div (t.numRows \div t.kr))
         IN Flatten([j \in 1..t.kc |->
               successorsValPos(t, t.numRows \div t.kr, t.numCols \div t.kc,
                                p % (t.numRows \div t.kr),
                                (t.numCols \div t.kc) * (j - 1), y + (j - 1))])
    ELSE <<>>
successorsValPosInit(t, p) ==
    IF t.L # <<>>
    THEN LET y == t.kc * (p \div (t.numRows \div t.kr))
             succs == Flatten([j \in 1..t.kc |->
                         successorsValPos(t, t.numRows \div t.kr, t.numCols \div t.kc,
                                          p % (t.numRows \div t.kr),
                                          (t.numCols \div t.kc) * (j - 1), y + (j - 1))])
         IN AsTuple([x \in 1..Len(succs) |-> [succs[x] EXCEPT !.row = p]], Len(succs))
    ELSE <<>>

\* the last pass of the iterative valued routine
leafPassVal(t, queue, relP, nr, nc, p) ==
    Flatten([x \in 1..Len(queue) |->
        IF At(t.T, queue[x].z)
        THEN LET y == rank(t.T, queue[x].z + 1) * t.kr * t.kc + t.kc * (relP \div nr) - Len(t.T)
             IN Flatten([j \in 1..t.kc |->
                    IF present(t, At(t.L, y + (j - 1)))
                    THEN <<ValuedPosition(p, queue[x].dq + (j - 1) * nc, At(t.L, y + (j - 1)))>>
                    ELSE <<>>])
        ELSE <<>>])
allSuccessorValuedPositionsIterative(t, p) ==
    IF t.L = <<>> THEN <<>>
    ELSE IF Len(t.T) = 0
    THEN LET offset == p * t.numCols
         IN Flatten([x \in 1..t.numCols |->
                IF present(t, At(t.L, offset + (x - 1)))
                THEN <<ValuedPosition(p, x - 1, At(t.L, offset + (x - 1)))>> ELSE <<>>])
    ELSE LET nr == t.numRows \div t.kr
             nc == t.numCols \div t.kc
             queue == AsTuple([j \in 1..t.kc |-> SubrowInfo((j - 1) * nc, t.kc * (p \div nr) + (j - 1))], t.kc)
             lv == levelLoop(t, queue, p % nr, nr \div t.kr, nc \div t.kc)
         IN leafPassVal(t, lv.queue, lv.relP, lv.nr, lv.nc, p)

RECURSIVE firstSuccessor(_, _, _, _, _, _)
RECURSIVE firstSuccessorChildren(_, _, _, _, _, _, _)
\* "for (j = 0; j < kc_ && pos == numCols_; j++) pos = firstSuccessor(...)"
firstSuccessorChildren(t, numRows, numCols, p, q, y, j) ==
    IF j >= t.kc THEN t.numCols
    ELSE LET pos == firstSuccessor(t, numRows \div t.kr, numCols \div t.kc,
                                   p % (numRows \div t.kr),
                                   q + (numCols \div t.kc) * j, y + j)
         IN IF pos # t.numCols THEN pos
            ELSE firstSuccessorChildren(t, numRows, numCols, p, q, y, j + 1)
firstSuccessor(t, numRows, numCols, p, q, z) ==
    IF z >= Len(t.T)
    THEN (IF present(t, At(t.L, z - Len(t.T))) THEN q ELSE t.numCols)
    ELSE IF At(t.T, z)
         THEN firstSuccessorChildren(t, numRows, numCols, p, q,
                  rank(t.T, z + 1) * t.kr * t.kc + t.kc * (p \div (numRows \div t.kr)), 0)
         ELSE t.numCols
RECURSIVE firstSuccessorInitLoop(_, _, _, _)
firstSuccessorInitLoop(t, p, y, j) ==
    IF j >= t.kc THEN t.numCols
    ELSE LET pos == firstSuccessor(t, t.numRows \div t.kr, t.numCols \div t.kc,
                                   p % (t.numRows \div t.kr),
                                   (t.numCols \div t.kc) * j, y + j)
         IN IF pos # t.numCols THEN pos ELSE firstSuccessorInitLoop(t, p, y, j + 1)
firstSuccessorInit(t, p) ==
    IF t.L # <<>>
    THEN firstSuccessorInitLoop(t, p, t.kc * (p \div (t.numRows \div t.kr)), 0)
    ELSE t.numCols

\* ------------------------------------------------ getPredecessorPositions
RECURSIVE predecessorsPos(_, _, _, _, _, _)
\* slip: the children of a column are stepped by 1 instead of by kc
predecessorsPos_step1(t, numRows, numCols, q, p, z) ==
    IF z >= Len(t.T)
    THEN (IF present(t, At(t.L, z - Len(t.T))) THEN <<p>> ELSE <<>>)
    ELSE IF At(t.T, z)
         THEN LET y == rank(t.T, z + 1) * t.kr * t.kc + q \div (numCols \div t.kc)
              IN Flatten([i \in 1..t.kr |->
                    predecessorsPos(t, numRows \div t.kr, numCols \div t.kc,
                                    q % (numCols \div t.kc),
                                    p + (numRows \div t.kr) * (i - 1), y + (i - 1))])
         ELSE <<>>
predecessorsPos(t, numRows, numCols, q, p, z) ==
    IF z >= Len(t.T)
    THEN (IF present(t, At(t.L, z - Len(t.T))) THEN <<p>> ELSE <<>>)
    ELSE IF At(t.T, z)
         THEN LET y == rank(t.T, z + 1) * t.kr * t.kc + q \div (numCols \div t.kc)
              IN Flatten([i \in 1..t.kr |->
                    predecessorsPos(t, numRows \div t.kr, numCols \div t.kc,
                                    q % (numCols \div t.kc),
                                    p + (numRows \div t.kr) * (i - 1), y + (i - 1) * t.kc)])
         ELSE <<>>
predecessorsPosInit(t, q) ==
    IF t.L # <<>>
    THEN LET y == q \div (t.numCols \div t.kc)
         IN Flatten([i \in 1..t.kr |->
                predecessorsPos(t, t.numRows \div t.kr, t.numCols \div t.kc,
                                q % (t.numCols \div t.kc),
                                (t.numRows \div t.kr) * (i - 1), y + (i - 1) * t.kc)])
    ELSE <<>>

\* ------------------------------------------------ getPositionsInRange
\* p1Prime / q1Prime and p2Prime / q2Prime of the loops over the children: the
\* rectangle clipped to child i, the children spanning n rows (or columns)
clipLo(i, v, n) == IF i = v \div n THEN v % n ELSE 0
clipHi(i, v, n) == IF i = v \div n THEN v % n ELSE n - 1
\* the values lo, lo + 1, ..., hi of a loop variable, in loop order
loopRange(lo, hi) == AsTuple([x \in 1..(hi - lo + 1) |-> lo + x - 1], hi - lo + 1)

RECURSIVE rangePos(_, _, _, _, _, _, _, _, _, _)
\* slip: the column offset of a child is taken from its row index
rangePos_rowOffset(t, numRows, numCols, p1, p2, q1, q2, dp, dq, z) ==
    IF z >= Len(t.T)
    THEN (IF present(t, At(t.L, z - Len(t.T))) THEN << <<dp, dq>> >> ELSE <<>>)
    ELSE IF At(t.T, z)
         THEN LET y == rank(t.T, z + 1) * t.kr * t.kc
                  nr == numRows \div t.kr
                  nc == numCols \div t.kc
                  is == loopRange(p1 \div nr, p2 \div nr)
                  js == loopRange(q1 \div nc, q2 \div nc)
              IN Flatten([a \in 1..Len(is) |-> Flatten([b \in 1..Len(js) |->
                    rangePos(t, nr, nc,
                             clipLo(is[a], p1, nr), clipHi(is[a], p2, nr),
                             clipLo(js[b], q1, nc), clipHi(js[b], q2, nc),
                             dp + nr * is[a], dq + nc * is[a],
                             y + t.kc * is[a] + js[b])])])
         ELSE <<>>
rangePos(t, numRows, numCols, p1, p2, q1, q2, dp, dq, z) ==
    IF z >= Len(t.T)
    THEN (IF present(t, At(t.L, z - Len(t.T))) THEN << <<dp, dq>> >> ELSE <<>>)
    ELSE IF At(t.T, z)
         THEN LET y == rank(t.T, z + 1) * t.kr * t.kc
                  nr == numRows \div t.kr
                  nc == numCols \div t.kc
                  is == loopRange(p1 \div nr, p2 \div nr)
                  js == loopRange(q1 \div nc, q2 \div nc)
              IN Flatten([a \in 1..Len(is) |-> Flatten([b \in 1..Len(js) |->
                    rangePos(t, nr, nc,
                             clipLo(is[a], p1, nr), clipHi(is[a], p2, nr),
                             clipLo(js[b], q1, nc), clipHi(js[b], q2, nc),
                             dp + nr * is[a], dq + nc * js[b],
                             y + t.kc * is[a] + js[b])])])
         ELSE <<>>
rangePosInit(t, p1, p2, q1, q2) ==
    IF t.L # <<>>
    THEN LET nr == t.numRows \div t.kr
             nc == t.numCols \div t.kc
             is == loopRange(p1 \div nr, p2 \div nr)
             js == loopRange(q1 \div nc, q2 \div nc)
         IN Flatten([a \in 1..Len(is) |-> Flatten([b \in 1..Len(js) |->
               rangePos(t, nr, nc,
                        clipLo(is[a], p1, nr), clipHi(is[a], p2, nr),
                        clipLo(js[b], q1, nc), clipHi(js[b], q2, nc),
                        nr * is[a], nc * js[b], t.kc * is[a] + js[b])])])
    ELSE <<>>

\* ------------------------------------------------ getValuedPositionsInRange
RECURSIVE rangeValPos(_, _, _, _, _, _, _, _, _, _)
rangeValPos(t, numRows, numCols, p1, p2, q1, q2, dp, dq, z) ==
    IF z >= Len(t.T)
    THEN (IF At(t.L, z - Len(t.T)) # t.null
          THEN << [row |-> dp, col |-> dq, val |-> At(t.L, z - Len(t.T))] >> ELSE <<>>)
    ELSE IF At(t.T, z)
         THEN LET y == rank(t.T, z + 1) * t.kr * t.kc
                  nr == numRows \div t.kr
                  nc == numCols \div t.kc
                  is == loopRange(p1 \div nr, p2 \div nr)
                  js == loopRange(q1 \div nc, q2 \div nc)
              IN Flatten([a \in 1..Len(is) |-> Flatten([b \in 1..Len(js) |->
                    rangeValPos(t, nr, nc,
                                clipLo(is[a], p1, nr), clipHi(is[a], p2, nr),
                                clipLo(js[b], q1, nc), clipHi(js[b], q2, nc),
                                dp + nr * is[a], dq + nc * js[b],
                                y + t.kc * is[a] + js[b])])])
         ELSE <<>>
rangeValPosInit(t, p1, p2, q1, q2) ==
    IF t.L # <<>>
    THEN LET nr == t.numRows \div t.kr
             nc == t.numCols \div t.kc
             is == loopRange(p1 \div nr, p2 \div nr)
             js == loopRange(q1 \div nc, q2 \div nc)
         IN Flatten([a \in 1..Len(is) |-> Flatten([b \in 1..Len(js) |->
               rangeValPos(t, nr, nc,
                           clipLo(is[a], p1, nr), clipHi(is[a], p2, nr),
                           clipLo(js[b], q1, nc), clipHi(js[b], q2, nc),
                           nr * is[a], nc * js[b], t.kc * is[a] + js[b])])])
    ELSE <<>>

\* ------------------------------------------------ containsElement
\* "return L_[z - T_.size()]" converts the element to bool; the loops return
\* at the first child that answers true
RECURSIVE elemInRange(_, _, _, _, _, _, _, _)
\* slip: only the first child that the rectangle meets is searched
elemInRange_firstChild(t, numRows, numCols, p1, p2, q1, q2, z) ==
    IF z >= Len(t.T) THEN Truthy(t, At(t.L, z - Len(t.T)))
    ELSE IF At(t.T, z)
         THEN IF p1 = 0 /\ q1 = 0 /\ p2 = numRows - 1 /\ q2 = numCols - 1 THEN TRUE
              ELSE LET y == rank(t.T, z + 1) * t.kr * t.kc
                       nr == numRows \div t.kr
                       nc == numCols \div t.kc
                   IN \E i \in {p1 \div nr} :
                         \E j \in {q1 \div nc} :
                            elemInRange(t, nr, nc,
                                        clipLo(i, p1, nr), clipHi(i, p2, nr),
                                        clipLo(j, q1, nc), clipHi(j, q2, nc),
                                        y + t.kc * i + j)
         ELSE FALSE
elemInRange(t, numRows, numCols, p1, p2, q1, q2, z) ==
    IF z >= Len(t.T) THEN Truthy(t, At(t.L, z - Len(t.T)))
    ELSE IF At(t.T, z)
         THEN IF p1 = 0 /\ q1 = 0 /\ p2 = numRows - 1 /\ q2 = numCols - 1 THEN TRUE
              ELSE LET y == rank(t.T, z + 1) * t.kr * t.kc
                       nr == numRows \div t.kr
                       nc == numCols \div t.kc
                   IN \E i \in (p1 \div nr)..(p2 \div nr) :
                         \E j \in (q1 \div nc)..(q2 \div nc) :
                            elemInRange(t, nr, nc,
                                        clipLo(i, p1, nr), clipHi(i, p2, nr),
                                        clipLo(j, q1, nc), clipHi(j, q2, nc),
                                        y + t.kc * i + j)
         ELSE FALSE
elemInRangeInit(t, p1, p2, q1, q2) ==
    IF t.L # <<>>
    THEN IF p1 = 0 /\ q1 = 0 /\ p2 = t.numRows - 1 /\ q2 = t.numCols - 1 THEN TRUE
         ELSE LET nr == t.numRows \div t.kr
                  nc == t.numCols \div t.kc
              IN \E i \in (p1 \div nr)..(p2 \div nr) :
                    \E j \in (q1 \div nc)..(q2 \div nc) :
                       elemInRange(t, nr, nc,
                                   clipLo(i, p1, nr), clipHi(i, p2, nr),
                                   clipLo(j, q1, nc), clipHi(j, q2, nc),
                                   t.kc * i + j)
    ELSE FALSE

\* ------------------------------------------------ public interface
getPositionsInRange(t, i1, i2, j1, j2) == rangePosInit(t, i1, i2, j1, j2)
getAllPositions(t) == getPositionsInRange(t, 0, t.numRows - 1, 0, t.numCols - 1)
\* slip: the cells equal to 0 are counted as absent, whatever null_ is
countElements_zero(t) == Cardinality({x \in 1..Len(t.L) : Truthy(t, t.L[x])})
countElements(t) == Cardinality({x \in 1..Len(t.L) : present(t, t.L[x])})
getValuedPositionsInRange(t, i1, i2, j1, j2) ==
    IF t.et = "bool"
    THEN LET pos == rangePosInit(t, i1, i2, j1, j2)
         IN AsTuple([x \in 1..Len(pos) |-> [row |-> pos[x][1], col |-> pos[x][2], val |-> TRUE]],
                    Len(pos))
    ELSE rangeValPosInit(t, i1, i2, j1, j2)
getAllValuedPositions(t) == getValuedPositionsInRange(t, 0, t.numRows - 1, 0, t.numCols - 1)
containsElement(t, i1, i2, j1, j2) == elemInRangeInit(t, i1, i2, j1, j2)
isNotNull(t, i, j) == IF t.et = "bool" THEN checkLinkInit(t, i, j) ELSE checkInit(t, i, j)
getElement(t, i, j) == IF t.et = "bool" THEN checkLinkInit(t, i, j) ELSE getInit(t, i, j)
getSuccessorPositions(t, i) == allSuccessorPositionsIterative(t, i)
getFirstSuccessor(t, i) == firstSuccessorPositionIterative(t, i)
getPredecessorPositions(t, j) == predecessorsPosInit(t, j)
setNull(t, i, j) == setInit(t, i, j)

\* ------------------------------------------------ inputs
RECURSIVE KSubsets(_, _)
KSubsets(S, k) ==
    IF k = 0 THEN {{}}
    ELSE LET P == KSubsets(S, k - 1) IN P \cup {p \cup {x} : p \in P, x \in S}

Cells(R, C) == (0..(R - 1)) \X (0..(C - 1))
\* a relation: at most MaxEntries cells of an R x C extent, each with a non-null value
Relations(R, C, vals) ==
    UNION {[S -> vals] : S \in KSubsets(Cells(R, C), MaxEntries)}
MatrixOf(rel, R, C, null) ==
    AsTuple([i \in 1..R |-> AsTuple([j \in 1..C |->
        IF <<i - 1, j - 1>> \in DOMAIN rel THEN rel[<<i - 1, j - 1>>] ELSE null], C)], R)

\* the list-of-lists of a relation: R lists, each sorted by ascending column
ListsOf(rel, R, C) ==
    AsTuple([i \in 1..R |-> Flatten([c \in 1..C |->
        IF <<i - 1, c - 1>> \in DOMAIN rel
        THEN << <<c - 1, rel[<<i - 1, c - 1>>]>> >> ELSE <<>>])], R)
ModeName(md) == IF md = 0 THEN "L0" ELSE IF md = 1 THEN "L1" ELSE "L2"

\* the inputs of the pairs constructor: any order, repeated cells included
PairsOver(vals) ==
    {[row |-> r, col |-> c, val |-> v] : r \in PairRows, c \in 0..(MaxCols - 1), v \in vals}
PairSeqs(vals) == UNION {[1..n -> PairsOver(vals)] : n \in 0..MaxEntries}

\* ------------------------------------------------ state
VARIABLES et, mode, input, kr_, kc_, h_, numRows_, numCols_, null_, T_, L_, ub, nset, thrown
vars == <<et, mode, input, kr_, kc_, h_, numRows_, numCols_, null_, T_, L_, ub, nset, thrown>>

Self == [et |-> et, kr |-> kr_, kc |-> kc_, h |-> h_, numRows |-> numRows_,
         numCols |-> numCols_, null |-> null_, T |-> T_, L |-> L_, ub |-> ub,
         thrown |-> thrown]

Install(t, m, in) ==
    /\ et' = t.et /\ mode' = m /\ input' = in
    /\ kr_' = t.kr /\ kc_' = t.kc /\ h_' = t.h
    /\ numRows_' = t.numRows /\ numCols_' = t.numCols /\ null_' = t.null
    /\ T_' = t.T /\ L_' = t.L /\ ub' = t.ub /\ nset' = 0 /\ thrown' = t.thrown

Init ==
    /\ et = "none" /\ mode = "none" /\ input = <<>>
    /\ kr_ = 2 /\ kc_ = 2 /\ h_ = 1 /\ numRows_ = 2 /\ numCols_ = 2 /\ null_ = 0
    /\ T_ = <<>> /\ L_ = <<>> /\ ub = FALSE /\ nset = 0 /\ thrown = FALSE

ElemTypes == {"generic", "bool"}
NullsOf(e) == IF e = "bool" THEN {FALSE} ELSE Nulls
ValuesOf(e, null) == IF e = "bool" THEN {TRUE} ELSE Elems \ {null}

ConstructMatrix ==
    /\ mode = "none"
    /\ \E e \in ElemTypes, k \in Arities, R \in RowCounts, C \in 1..MaxCols :
         \E null \in NullsOf(e) :
            \E rel \in Relations(R, C, ValuesOf(e, null)) :
               LET mat == MatrixOf(rel, R, C, null)
               IN Install(IF e = "bool" THEN KrKcTreeBool_mat(mat, k[1], k[2])
                          ELSE KrKcTree_mat(mat, k[1], k[2], null), "M", mat)

ConstructLists ==
    /\ mode = "none"
    /\ \E e \in ElemTypes, k \in Arities, R \in RowCounts, md \in 0..2, g \in Garbage :
         \E null \in NullsOf(e) :
            \E rel \in Relations(R, MaxCols, ValuesOf(e, null)) :
               LET lists == ListsOf(rel, R, MaxCols)
               IN Install(IF e = "bool" THEN KrKcTreeBool_lists(lists, k[1], k[2], md)
                          ELSE KrKcTree_lists(lists, k[1], k[2], md, null, g),
                          ModeName(md), lists)

ConstructPairs ==
    /\ mode = "none"
    /\ \E e \in ElemTypes, k \in Arities :
         \E null \in NullsOf(e) :
            \E pairs \in PairSeqs(IF e = "bool" THEN {TRUE} ELSE Elems) :
               Install(KrKcTree_pairs(e, pairs, k[1], k[2], null), "P", pairs)

\* the windowed constructors: the window of the matrix, of the list-of-lists
\* and of the triples starts at (x, y) and has nr x nc cells; the sizes are the
\* two smallest valid ones and two that checkParameters rejects
WinRows == 3
WinOrigins == {<<0, 1>>, <<1, 0>>}
WinSizes(k) ==
    {<<k[1], k[2]>>, <<k[1] * k[1], k[2] * k[2]>>, <<k[1] * k[1], k[2]>>, <<k[1], k[2] * k[2]>>}
Window(data, o, sz) == [data |-> data, x |-> o[1], y |-> o[2], nr |-> sz[1], nc |-> sz[2]]

ConstructMatrixWindow ==
    /\ mode = "none"
    /\ \E e \in ElemTypes, k \in Arities, o \in WinOrigins :
         \E null \in NullsOf(e), sz \in WinSizes(k) :
            \E rel \in Relations(WinRows, MaxCols, ValuesOf(e, null)) :
               LET mat == MatrixOf(rel, WinRows, MaxCols, null)
               IN Install(KrKcTree_matWindow(e, mat, o[1], o[2], sz[1], sz[2], k[1], k[2], null),
                          "WM", Window(mat, o, sz))

ConstructListsWindow ==
    /\ mode = "none"
    /\ \E e \in ElemTypes, k \in Arities, o \in WinOrigins, md \in 0..2, g \in Garbage :
         \E null \in NullsOf(e), sz \in WinSizes(k) :
            \E rel \in Relations(WinRows, MaxCols, ValuesOf(e, null)) :
               LET lists == ListsOf(rel, WinRows, MaxCols)
               IN Install(KrKcTree_listsWindow(e, lists, o[1], o[2], sz[1], sz[2],
                                               k[1], k[2], md, null, g),
                          "W" \o ModeName(md), Window(lists, o, sz))

\* the triples handed to the windowed pairs constructor lie inside the window
PairsInWindow(o, vals) ==
    {[row |-> r, col |-> c, val |-> v] : r \in {o[1], o[1] + 1}, c \in {o[2], o[2] + 1}, v \in vals}
ConstructPairsWindow ==
    /\ mode = "none"
    /\ \E e \in ElemTypes, k \in Arities, o \in WinOrigins :
         \E null \in NullsOf(e), sz \in WinSizes(k), n \in 0..MaxEntries :
            \E pf \in [1..n -> PairsInWindow(o, IF e = "bool" THEN {TRUE} ELSE Elems)] :
               LET pairs == AsTuple(pf, n)
               IN Install(KrKcTree_pairsWindow(e, pairs, o[1], o[2], sz[1], sz[2], 0, n,
                                               k[1], k[2], null),
                          "WP", Window(pairs, o, sz))

\* a constructor returned an object
Built == mode # "none" /\ ~thrown

\* setNull(i, j) on a constructed object; nothing is modelled after a build
\* whose behaviour was undefined
SetNull ==
    /\ Built
    /\ ~ub
    /\ nset < MaxSetNull
    /\ \E i \in 0..(numRows_ - 1), j \in 0..(numCols_ - 1) :
         /\ L_' = setNull(Self, i, j)
         /\ nset' = nset + 1
         /\ UNCHANGED <<et, mode, input, kr_, kc_, h_, numRows_, numCols_, null_, T_, ub,
                        thrown>>

Next ==
    \/ ConstructMatrix \/ ConstructLists \/ ConstructPairs
    \/ ConstructMatrixWindow \/ ConstructListsWindow \/ ConstructPairsWindow
    \/ SetNull

Spec == Init /\ [][Next]_vars

\* ------------------------------------------------ what the inputs denote
AllRows == 0..(numRows_ - 1)
AllCols == 0..(numCols_ - 1)
SeqSet(s) == {s[k] : k \in 1..Len(s)}
StrictlyAscending(s) == \A a, b \in 1..Len(s) : a < b => s[a] < s[b]

\* the value a list-of-lists gives cell (i, j): the listed one, else null
listsValue(lists, i, j, null) ==
    IF i < Len(lists) /\ \E k \in 1..Len(lists[i + 1]) : lists[i + 1][k][1] = j
    THEN lists[i + 1][CHOOSE k \in 1..Len(lists[i + 1]) : lists[i + 1][k][1] = j][2]
    ELSE null
\* the values the triples of a pairs input give cell (i, j)
pairsValues(pairs, i, j) ==
    {pairs[k].val : k \in {x \in 1..Len(pairs) : pairs[x].row = i /\ pairs[x].col = j}}
\* the dense matrix and the triples of a list-of-lists
matrixOfLists(lists, null) ==
    AsTuple([i \in 1..Len(lists) |->
                AsTuple([j \in 1..listsMaxCol(lists) |-> listsValue(lists, i - 1, j - 1, null)],
                        listsMaxCol(lists))], Len(lists))
pairsOfLists(lists) ==
    LET es == listsEntries(lists)
    IN AsTuple([k \in 1..Len(es) |-> [row |-> es[k][1], col |-> es[k][2], val |-> es[k][3]]],
               Len(es))
ListModes == {"L0", "L1", "L2"}

\* ------------------------------------------------ C1
\* C1: a structure built from a dense matrix returns, for every cell of the
\* padded extent, the matrix value inside the matrix and null outside it.
C1_MatrixGetElement ==
    (mode = "M" /\ nset = 0) =>
        \A i \in AllRows, j \in AllCols :
            getElement(Self, i, j) =
                (IF i < matRows(input) /\ j < matCols(input)
                 THEN input[i + 1][j + 1] ELSE null_)
\* a generic matrix smaller than its padded extent, of height 2 or more, with a
\* null other than 0 and a stored non-null cell
C1_Witness ==
    /\ mode = "M" /\ nset = 0 /\ et = "generic" /\ h_ >= 2 /\ null_ = 1
    /\ matRows(input) < numRows_ /\ matCols(input) < numCols_
    /\ \E i \in AllRows, j \in AllCols : getElement(Self, i, j) # null_

\* ------------------------------------------------ C2
\* C2: the five builders produce the same T and the same L for the same
\* relation, arities and null: for a structure built from a list-of-lists,
\* every builder that is run on the same relation and reaches the same extent
\* returns the T and L of the structure.
C2_BuildersAgree ==
    (mode \in ListModes /\ nset = 0 /\ ~ub) =>
        LET m == IF et = "bool" THEN KrKcTreeBool_mat(matrixOfLists(input, null_), kr_, kc_)
                 ELSE KrKcTree_mat(matrixOfLists(input, null_), kr_, kc_, null_)
            l(md) == IF et = "bool" THEN KrKcTreeBool_lists(input, kr_, kc_, md)
                     ELSE KrKcTree_lists(input, kr_, kc_, md, null_, NoGarbage)
            pp == KrKcTree_pairs(et, pairsOfLists(input), kr_, kc_, null_)
        IN \A b \in {m, l(0), l(1), l(2), pp} :
              (b.h = h_ /\ ~b.ub) => (b.T = T_ /\ b.L = L_)

\* ------------------------------------------------ C3
\* C3: a generic structure built with mode 2 returns the listed value for
\* every listed entry, at every height, and null for every other cell.
C3_DynamicBitmapsGetElement ==
    (mode = "L2" /\ et = "generic" /\ nset = 0) =>
        \A i \in AllRows, j \in AllCols :
            getElement(Self, i, j) = listsValue(input, i, j, null_)

\* ------------------------------------------------ C4
\* C4: a generic structure built from triples returns the value of a triple
\* of the cell for every cell that has one, and null (isNotNull false) for
\* every cell that has none, whatever the null value.
C4_InplaceGetElement ==
    (mode = "P" /\ et = "generic" /\ nset = 0) =>
        \A i \in AllRows, j \in AllCols :
            IF pairsValues(input, i, j) = {}
            THEN getElement(Self, i, j) = null_ /\ ~isNotNull(Self, i, j)
            ELSE getElement(Self, i, j) \in pairsValues(input, i, j)

\* ------------------------------------------------ C5
\* C5: a generic structure built with mode 0 from sorted lists returns the
\* listed value for every listed entry and null for every other cell, and the
\* build neither advances a cursor past the end of its list nor advances the
\* cursor of a row that has no list.
C5_CursorsGetElement ==
    (mode = "L0" /\ et = "generic" /\ nset = 0) =>
        /\ ~ub
        /\ \A i \in AllRows, j \in AllCols :
              getElement(Self, i, j) = listsValue(input, i, j, null_)

C7_IsNotNullIffGetElement ==
    Built =>
        \A i \in AllRows, j \in AllCols :
            isNotNull(Self, i, j) <=> (getElement(Self, i, j) # null_)
\* a generic structure of height 2 or more, null other than 0, after a
\* setNull, with a non-null cell and a null cell
C7_Witness ==
    /\ Built /\ et = "generic" /\ nset >= 1 /\ h_ >= 2 /\ null_ = 1
    /\ \E i \in AllRows, j \in AllCols : isNotNull(Self, i, j)
    /\ \E i \in AllRows, j \in AllCols : ~isNotNull(Self, i, j)

\* ------------------------------------------------ C8
\* C8: in every reachable state, getSuccessorPositions(i) is strictly
\* ascending and holds exactly the columns j with getElement(i, j) # null.
C8_SuccessorPositions ==
    Built =>
        \A i \in AllRows :
            LET succs == getSuccessorPositions(Self, i)
            IN /\ StrictlyAscending(succs)
               /\ SeqSet(succs) = {j \in AllCols : getElement(Self, i, j) # null_}
\* height 3 with kr # kc, after a setNull, a row with two successors
C8_Witness ==
    /\ Built /\ h_ = 3 /\ kr_ # kc_ /\ nset >= 1
    /\ \E i \in AllRows : Len(getSuccessorPositions(Self, i)) >= 2

\* ------------------------------------------------ C9
\* C9: getFirstSuccessor(i) is the smallest element of
\* getSuccessorPositions(i), and numCols when that list is empty.
C9_FirstSuccessor ==
    Built =>
        \A i \in AllRows :
            LET succs == SeqSet(getSuccessorPositions(Self, i))
                first == getFirstSuccessor(Self, i)
            IN IF succs = {} THEN first = numCols_
               ELSE first \in succs /\ \A j \in succs : first <= j
\* height 3: a row whose first successor is not column 0 and has a later
\* one, and a row without successors
C9_Witness ==
    /\ Built /\ h_ = 3
    /\ \E i \in AllRows : /\ getFirstSuccessor(Self, i) > 0
                          /\ getFirstSuccessor(Self, i) < numCols_
                          /\ Len(getSuccessorPositions(Self, i)) >= 2
    /\ \E i \in AllRows : getFirstSuccessor(Self, i) = numCols_

\* ------------------------------------------------ C10
\* C10: getPredecessorPositions(j) lists in ascending row order, without
\* repetition, exactly the rows i with j in getSuccessorPositions(i).
C10_PredecessorPositions ==
    Built =>
        \A j \in AllCols :
            LET preds == getPredecessorPositions(Self, j)
            IN /\ StrictlyAscending(preds)
               /\ SeqSet(preds) =
                     {i \in AllRows : j \in SeqSet(getSuccessorPositions(Self, i))}
\* height 3: a column with two predecessors in different top-level row bands
C10_Witness ==
    /\ Built /\ h_ = 3
    /\ \E j \in AllCols :
          LET preds == getPredecessorPositions(Self, j)
          IN Len(preds) >= 2 /\ preds[Len(preds)] >= numRows_ \div kr_


\* ------------------------------------------------ C11
\* the rectangles of the range queries: their ends are the first rows and
\* columns, the ends of the first top-level child and the last row and column
\* (at height 3: the first two, the start of the second child and the last)
QueryRows ==
    AllRows \cap (IF h_ <= 2
                  THEN {0, 1, 2, numRows_ \div kr_ - 1, numRows_ \div kr_, numRows_ - 1}
                  ELSE {0, 1, numRows_ \div kr_, numRows_ - 1})
QueryCols ==
    AllCols \cap (IF h_ <= 2
                  THEN {0, 1, 2, numCols_ \div kc_ - 1, numCols_ \div kc_, numCols_ - 1}
                  ELSE {0, 1, numCols_ \div kc_, numCols_ - 1})
Rectangles ==
    {r \in QueryRows \X QueryRows \X QueryCols \X QueryCols : r[1] <= r[2] /\ r[3] <= r[4]}
\* the cells whose element differs from null, row by row
NonNullCells ==
    Flatten([i \in 1..numRows_ |-> Flatten([j \in 1..numCols_ |->
        IF getElement(Self, i - 1, j - 1) # null_ THEN << <<i - 1, j - 1>> >> ELSE <<>>])])
InRectangle(c, r) == r[1] <= c[1] /\ c[1] <= r[2] /\ r[3] <= c[2] /\ c[2] <= r[4]

\* C11: in every reachable state and for every rectangle inside the padded
\* extent, getPositionsInRange returns each position of the rectangle whose
\* element differs from null exactly once, and no other position.
C11_PositionsInRange ==
    Built =>
        \A nn \in {NonNullCells} :
           \A r \in Rectangles :
              \A ps \in {getPositionsInRange(Self, r[1], r[2], r[3], r[4])} :
                 /\ SeqSet(ps) = {c \in SeqSet(nn) : InRectangle(c, r)}
                 /\ Cardinality(SeqSet(ps)) = Len(ps)
\* height 3 with kr # kc, after a setNull: a rectangle that is not the whole
\* extent, holds two positions and leaves a non-null cell outside
C11_Witness ==
    /\ Built /\ h_ = 3 /\ kr_ # kc_ /\ nset >= 1
    /\ \E nn \in {NonNullCells} :
          \E r \in Rectangles :
             /\ r[1] > 0
             /\ Len(getPositionsInRange(Self, r[1], r[2], r[3], r[4])) >= 2
             /\ \E c \in SeqSet(nn) : ~InRectangle(c, r)

\* ------------------------------------------------ C12
\* no triple of a pairs input carries the null value
NullFreeInput == mode = "P" => \A k \in 1..Len(input) : input[k].val # null_

\* C12: on a freshly constructed structure, whatever the null value, and for
\* every rectangle inside the padded extent, containsElement is true exactly
\* when getPositionsInRange is not empty.
C12_ContainsIffPositions ==
    (Built /\ nset = 0 /\ ~ub /\ NullFreeInput) =>
        \A r \in Rectangles :
            containsElement(Self, r[1], r[2], r[3], r[4])
                <=> (getPositionsInRange(Self, r[1], r[2], r[3], r[4]) # <<>>)

\* ------------------------------------------------ C13
\* C13: in every reachable state, after any builder and any setNull calls,
\* countElements() is the number of positions getAllPositions() returns.
C13_CountElements ==
    Built => countElements(Self) = Len(getAllPositions(Self))
\* a generic structure of height 2 or more with a null other than 0 and a
\* stored 0, after a setNull, that still holds two elements
C13_Witness ==
    /\ Built /\ et = "generic" /\ null_ = 1 /\ h_ >= 2 /\ nset >= 1
    /\ \E x \in 1..Len(L_) : L_[x] = 0
    /\ countElements(Self) >= 2

\* ------------------------------------------------ C14
\* C14: for a structure built by any builder, the pairs constructor run on
\* its getAllValuedPositions() with the same kr, kc and null returns the
\* same T and the same L.
C14_RoundTrip ==
    (Built /\ nset = 0 /\ ~ub) =>
        \A b \in {KrKcTree_pairs(et, getAllValuedPositions(Self), kr_, kc_, null_)} :
            b.T = T_ /\ b.L = L_

\* ------------------------------------------------ C15
WindowModes == {"WM", "WL0", "WL1", "WL2", "WP"}
\* the smallest e with k^e >= n
CeilLog(n, k) == CHOOSE e \in 0..n : Pow(k, e) >= n /\ (e = 0 \/ Pow(k, e - 1) < n)
WindowHeight == Max3(1, CeilLog(input.nr, kr_), CeilLog(input.nc, kc_))

\* C15: a windowed constructor called with window size (nr, nc) throws the
\* parameter error exactly when nr # kr^h or nc # kc^h, for
\* h = max(1, ceil(log_kr nr), ceil(log_kc nc)); when it throws, nothing has
\* been written to T or L.
C15_WindowParameters ==
    (mode \in WindowModes /\ nset = 0) =>
        /\ thrown <=> (input.nr # Pow(kr_, WindowHeight) \/ input.nc # Pow(kc_, WindowHeight))
        /\ thrown => (T_ = <<>> /\ L_ = <<>>)
\* a windowed list-of-lists call with entries inside the window that is
\* rejected although nr is kr^h: only nc differs from kc^h
C15_Witness ==
    /\ mode \in {"WL0", "WL1", "WL2"} /\ thrown
    /\ input.nr = Pow(kr_, WindowHeight) /\ input.nc # Pow(kc_, WindowHeight)
    /\ windowEntries(input.data, input.x, input.y, input.nr, input.nc) # <<>>

\* ------------------------------------------------ C16
\* the value a dense matrix gives cell (i, j): the stored one, else null
matrixValue(mat, i, j, null) ==
    IF i < matRows(mat) /\ j < matCols(mat) THEN mat[i + 1][j + 1] ELSE null
\* the value the windowed input gives cell (i, j) of the window
windowValue(i, j) ==
    IF mode = "WM" THEN matrixValue(input.data, input.x + i, input.y + j, null_)
    ELSE listsValue(input.data, input.x + i, input.y + j, null_)
InWindow(i, j) ==
    /\ input.x <= i /\ i < input.x + input.nr
    /\ input.y <= j /\ j < input.y + input.nc
\* the input with everything outside the window removed
clippedMatrix(mat) ==
    AsTuple([i \in 1..matRows(mat) |-> AsTuple([j \in 1..matCols(mat) |->
        IF InWindow(i - 1, j - 1) THEN mat[i][j] ELSE null_], matCols(mat))], matRows(mat))
clippedLists(lists) ==
    AsTuple([i \in 1..Len(lists) |-> Flatten([k \in 1..Len(lists[i]) |->
        IF InWindow(i - 1, lists[i][k][1]) THEN <<lists[i][k]>> ELSE <<>>])], Len(lists))
\* the same windowed constructor run on the clipped input
windowRebuilt ==
    IF mode = "WM"
    THEN KrKcTree_matWindow(et, clippedMatrix(input.data), input.x, input.y, input.nr, input.nc,
                            kr_, kc_, null_)
    ELSE KrKcTree_listsWindow(et, clippedLists(input.data), input.x, input.y, input.nr, input.nc,
                              kr_, kc_, IF mode = "WL0" THEN 0 ELSE IF mode = "WL1" THEN 1 ELSE 2,
                              null_, NoGarbage)

\* C16: a structure built by the windowed matrix constructor or by the
\* windowed list-of-lists constructor in mode 0, 1 or 2 with a valid window
\* (x, y, nr, nc) returns, for every cell (i, j) of the window, the input's
\* value at (x + i, y + j), null where the input has none; the build has no
\* undefined cursor use, and the input outside the window has no effect on
\* T or L.
C16_WindowGetElement ==
    (mode \in {"WM", "WL0", "WL1", "WL2"} /\ ~thrown /\ nset = 0) =>
        /\ ~ub
        /\ \A i \in AllRows, j \in AllCols : getElement(Self, i, j) = windowValue(i, j)
        /\ \A b \in {windowRebuilt} : b.T = T_ /\ b.L = L_

\* ------------------------------------------------ C17
MaxOf(S) == IF S = {} THEN 0 ELSE CHOOSE m \in S : \A s \in S : s <= m
\* the input's extent R x C, per constructor
ExtentRows ==
    IF mode = "M" THEN Len(input)
    ELSE IF mode \in {"L0", "L1", "L2"} THEN Len(input)
    ELSE IF mode = "P" THEN MaxOf({input[k].row : k \in 1..Len(input)}) + 1
    ELSE input.nr
ExtentCols ==
    IF mode = "M" THEN Len(input[1])
    ELSE IF mode \in {"L0", "L1", "L2"}
    THEN MaxOf(UNION {{input[i][k][1] : k \in 1..Len(input[i])} : i \in 1..Len(input)}) + 1
    ELSE IF mode = "P" THEN MaxOf({input[k].col : k \in 1..Len(input)}) + 1
    ELSE input.nc

SmallestPowerAbove(k, S) ==
    Pow(k, CHOOSE e \in 0..(MaxOf(S) + 1) :
               /\ \A m \in S : Pow(k, e) > m
               /\ (e = 0 \/ \E m \in S : Pow(k, e - 1) <= m))

\* C18: after construction from a list of pairs, numRows is the smallest
\* power of kr that exceeds the row numbers of all relation pairs, and
\* numCols is the smallest power of kc that exceeds their column numbers.
C18_SmallestPowers ==
    mode = "P" =>
        /\ numRows_ = SmallestPowerAbove(kr_, {input[k].row : k \in 1..Len(input)})
        /\ numCols_ = SmallestPowerAbove(kc_, {input[k].col : k \in 1..Len(input)})

\* ------------------------------------------------ C19
\* the triple at index k is the last one of the input for its cell
LastForCell(k) ==
    \A k2 \in (k + 1)..Len(input) :
        ~(input[k2].row = input[k].row /\ input[k2].col = input[k].col)
\* some other triple of the input names the same cell
Repeated(k) ==
    \E k2 \in 1..Len(input) :
        k2 # k /\ input[k2].row = input[k].row /\ input[k2].col = input[k].col

\* C19: when the input of the pairs constructor holds several triples with
\* the same (row, column), getElement(row, column) returns the value of the
\* one that comes last in the input, at every height h.
C19_LastWriteWins ==
    (mode = "P" /\ nset = 0) =>
        \A k \in 1..Len(input) :
            (Repeated(k) /\ LastForCell(k)) =>
                getElement(Self, input[k].row, input[k].col) = input[k].val
\* two triples for one cell with different values, below the first level
C19_Witness ==
    /\ mode = "P" /\ nset = 0 /\ h_ >= 2 /\ Len(input) = 2
    /\ Repeated(2) /\ input[1].val # input[2].val
    /\ getElement(Self, input[2].row, input[2].col) = input[2].val

\* ------------------------------------------------ C20
\* the input gives some cell (of the window, for a windowed constructor) a
\* value other than null
NonEmptyRelation ==
    IF mode = "M" THEN \E i \in 1..Len(input), j \in 1..Len(input[1]) : input[i][j] # null_
    ELSE IF mode \in {"L0", "L1", "L2"}
    THEN \E i \in 1..Len(input) : \E k \in 1..Len(input[i]) : input[i][k][2] # null_
    ELSE IF mode = "P" THEN \E k \in 1..Len(input) : input[k].val # null_
    ELSE IF mode = "WP"
    THEN \E k \in 1..Len(input.data) :
            /\ InWindow(input.data[k].row, input.data[k].col)
            /\ input.data[k].val # null_
    ELSE IF mode \in {"WM", "WL0", "WL1", "WL2"}
    THEN \E i \in 0..(input.nr - 1), j \in 0..(input.nc - 1) : windowValue(i, j) # null_
    ELSE FALSE

\* C20: on a structure built from any non-empty relation,
\* containsElement(0, numRows - 1, 0, numCols - 1) returns true, and it still
\* returns true after any sequence of setNull calls, also one that has made
\* every cell null.
C20_WholeExtent ==
    (Built /\ NonEmptyRelation) =>
        containsElement(Self, 0, numRows_ - 1, 0, numCols_ - 1)

\* ------------------------------------------------ C21
\* the input is an all-null matrix or an empty list of pairs
EmptyInput ==
    \/ mode = "M" /\ \A i \in 1..Len(input), j \in 1..Len(input[1]) : input[i][j] = null_
    \/ mode = "P" /\ Len(input) = 0

\* C21: for a structure built from an all-null matrix or from an empty list
\* of pairs, T and L are both empty, and for all in-range arguments isNotNull
\* returns false, getElement returns null, every successor, predecessor and
\* range query returns an empty list, containsElement returns false,
\* countElements returns 0 and getFirstSuccessor returns numCols.
C21_EmptyStructure ==
    EmptyInput =>
        /\ T_ = <<>> /\ L_ = <<>>
        /\ \A i \in AllRows, j \in AllCols :
              ~isNotNull(Self, i, j) /\ getElement(Self, i, j) = null_
        /\ \A i \in AllRows :
              /\ getSuccessorPositions(Self, i) = <<>> /\ getFirstSuccessor(Self, i) = numCols_
              /\ successorsPosInit(Self, i) = <<>> /\ firstSuccessorInit(Self, i) = numCols_
              /\ et = "generic" => allSuccessorValuedPositionsIterative(Self, i) = <<>>
        /\ \A j \in AllCols : getPredecessorPositions(Self, j) = <<>>
        /\ \A r \in Rectangles :
              /\ getPositionsInRange(Self, r[1], r[2], r[3], r[4]) = <<>>
              /\ getValuedPositionsInRange(Self, r[1], r[2], r[3], r[4]) = <<>>
              /\ ~containsElement(Self, r[1], r[2], r[3], r[4])
        /\ countElements(Self) = 0
\* an empty list of pairs, queried after a setNull call
C21_Witness ==
    /\ mode = "P" /\ Len(input) = 0 /\ nset > 0
    /\ getFirstSuccessor(Self, 0) = numCols_
    /\ ~containsElement(Self, 0, numRows_ - 1, 0, numCols_ - 1)

\* ------------------------------------------------ C22
\* the walk of set from the root towards (p, q) meets no 0 bit of T
RECURSIVE pathAllOnes(_, _, _, _, _, _)
pathAllOnes(t, numRows, numCols, p, q, z) ==
    IF z >= Len(t.T) THEN TRUE
    ELSE At(t.T, z)
         /\ pathAllOnes(t, numRows \div t.kr, numCols \div t.kc,
                        p % (numRows \div t.kr), q % (numCols \div t.kc),
                        rank(t.T, z + 1) * t.kr * t.kc + slot(t, numRows, numCols, p, q))
pathAllOnesInit(t, p, q) ==
    pathAllOnes(t, t.numRows \div t.kr, t.numCols \div t.kc,
                p % (t.numRows \div t.kr), q % (t.numCols \div t.kc),
                slot(t, t.numRows, t.numCols, p, q))

\* C22: after setNull(i, j) with i < numRows and j < numCols, getElement(i, j)
\* returns null and getElement is unchanged for every other cell; T, the
\* length of L and the configuration (kr, kc, h, numRows, numCols, null) are
\* unchanged, and when a T bit on the path to (i, j) is 0 or the structure is
\* empty nothing changes at all.
C22_SetNullFrame ==
    /\ [](Built /\ ~ub =>
            \A i \in AllRows, j \in AllCols :
               \A after \in {[Self EXCEPT !.L = setNull(Self, i, j)]} :
                  /\ Len(after.L) = Len(L_)
                  /\ getElement(after, i, j) = null_
                  /\ after.L # L_ =>
                        \A i2 \in AllRows, j2 \in AllCols :
                           <<i2, j2>> # <<i, j>> =>
                              getElement(after, i2, j2) = getElement(Self, i2, j2)
                  /\ (L_ = <<>> \/ ~pathAllOnesInit(Self, i, j)) => after.L = L_)
    /\ [][nset' = nset + 1 =>
            /\ \E i \in AllRows, j \in AllCols : L_' = setNull(Self, i, j)
            /\ T_' = T_ /\ Len(L_') = Len(L_)
            /\ <<kr_', kc_', h_', numRows_', numCols_', null_'>>
                  = <<kr_, kc_, h_, numRows_, numCols_, null_>>
         ]_vars
\* a setNull call has turned a cell of the input matrix into null, with
\* null = 1
C22_Witness ==
    /\ mode = "M" /\ et = "generic" /\ nset > 0 /\ null_ = 1 /\ h_ >= 2
    /\ \E i \in 1..Len(input), j \in 1..Len(input[1]) :
          input[i][j] # null_ /\ getElement(Self, i - 1, j - 1) = null_

\* ------------------------------------------------ C23
GroupSize == kr_ * kc_
OnesOfT == Cardinality({z \in 1..Len(T_) : T_[z]})

\* C23: after construction by any mode, |T| and |L| are multiples of kr*kc,
\* for every z < |T| with T[z] = 1 the child group of kr*kc entries starting
\* at rank1(z+1)*kr*kc of T||L lies entirely inside T||L, and
\* |T| + |L| = (1 + number of 1-bits in T) * kr*kc whenever L is non-empty.
C23_GroupLayout ==
    Built =>
        /\ Len(T_) % GroupSize = 0
        /\ Len(L_) % GroupSize = 0
        /\ \A z \in 0..(Len(T_) - 1) :
              At(T_, z) => (rank(T_, z + 1) + 1) * GroupSize <= Len(T_) + Len(L_)
        /\ L_ # <<>> => Len(T_) + Len(L_) = (1 + OnesOfT) * GroupSize
\* height 3 with kr # kc: four internal groups' worth of 1-bits and two leaf
\* groups, built by the boolean matrix constructor
C23_Witness ==
    /\ Built /\ mode = "M" /\ et = "bool" /\ h_ = 3 /\ kr_ # kc_
    /\ OnesOfT = 4 /\ Len(L_) = 2 * GroupSize
    /\ Len(T_) + Len(L_) = (1 + OnesOfT) * GroupSize

\* ------------------------------------------------ C24
FiveModes == {"M", "L0", "L1", "L2", "P"}
\* the input gives cell (i, j) a value other than null (the last triple of the
\* cell decides for a pairs input)
inputNonNull(i, j) ==
    IF mode = "M" THEN matrixValue(input, i, j, null_) # null_
    ELSE IF mode = "P"
    THEN LET ks == {k \in 1..Len(input) : input[k].row = i /\ input[k].col = j}
         IN ks # {} /\ input[MaxOf(ks)].val # null_
    ELSE listsValue(input, i, j, null_) # null_
\* the subtree below position z of T||L stores a cell other than null
RECURSIVE subtreeNonNull(_, _)
subtreeNonNull(t, z) ==
    IF z >= Len(t.T) THEN present(t, At(t.L, z - Len(t.T)))
    ELSE At(t.T, z)
         /\ \E s \in 0..(t.kr * t.kc - 1) :
               subtreeNonNull(t, rank(t.T, z + 1) * t.kr * t.kc + s)

\* C24: after construction by any of the five modes, in both classes and for
\* any accepted input, a bit of T is 1 only if the child subtree it stands
\* for holds a non-null cell, every non-null cell of the input lies below 1
\* bits only, and every group of kr*kc entries of L holds a non-null entry:
\* no bit group and no leaf group is emitted for an all-null subtree.
C24_NoEmptySubtree ==
    (mode \in FiveModes /\ nset = 0) =>
        /\ \A g \in 0..(Len(L_) \div GroupSize - 1) :
              \E s \in 0..(GroupSize - 1) : present(Self, At(L_, g * GroupSize + s))
        /\ \A z \in 0..(Len(T_) - 1) :
              At(T_, z) => \E s \in 0..(GroupSize - 1) :
                              subtreeNonNull(Self, rank(T_, z + 1) * GroupSize + s)
        /\ \A i \in AllRows, j \in AllCols :
              inputNonNull(i, j) => L_ # <<>> /\ pathAllOnesInit(Self, i, j)

\* ------------------------------------------------ the Mode L2 build, step by step
\* the lists handed to the step-wise build: L2Rows lists, at most MaxInserts
\* entries, the columns of a list in any order, a cell possibly more than once
MaxInserts == 3
L2Rows == 3
L2Cols == {0, 2, 4}
L2Cells == (0..(L2Rows - 1)) \X L2Cols
L2ListsOf(cs, vs, n) ==
    AsTuple([i \in 1..L2Rows |-> Flatten([k \in 1..n |->
        IF cs[k][1] = i - 1 THEN << <<cs[k][2], vs[k]>> >> ELSE <<>>])], L2Rows)

\* the constructor up to the first insertion: the dimensions are set, T and R
\* are empty, L is empty (h >= 2) or one group of nulls (h = 1)
BeginL2 ==
    /\ mode = "none"
    /\ \E e \in ElemTypes, k \in Arities, n \in 0..MaxInserts :
         \E null \in NullsOf(e), cs \in [1..n -> L2Cells] :
            \E vs \in [1..n -> ValuesOf(e, null)] :
            /\ LET lists == L2ListsOf(cs, vs, n)
                   t == DimensionLists(e, lists, k[1], k[2], null)
               IN Install([t EXCEPT !.L = IF t.h = 1 THEN Fill(t.kr * t.kc, t.null) ELSE <<>>],
                          "L2build", [lists |-> lists, n |-> 0, R |-> <<>>])

\* one pass of the inner loop: the next entry of the lists is inserted
InsertL2 ==
    /\ mode = "L2build"
    /\ input.n < Len(listsEntries(input.lists))
    /\ LET e == listsEntries(input.lists)[input.n + 1]
       IN IF h_ = 1
          THEN /\ L_' = writeAll(Self, L_, <<e>>)
               /\ T_' = T_
               /\ input' = [input EXCEPT !.n = @ + 1]
          ELSE LET st == insertInit(Self, [T |-> T_, R |-> input.R, L |-> L_], e[1], e[2], e[3])
               IN /\ T_' = st.T
                  /\ L_' = st.L
                  /\ input' = [input EXCEPT !.n = @ + 1, !.R = st.R]
    /\ UNCHANGED <<et, mode, kr_, kc_, h_, numRows_, numCols_, null_, ub, nset, thrown>>

\* the end of the builder: T is moved into T_, an all-null L is dropped (h = 1)
FinishL2 ==
    /\ mode = "L2build"
    /\ input.n = Len(listsEntries(input.lists))
    /\ mode' = "L2"
    /\ input' = input.lists
    /\ L_' = IF h_ = 1 /\ isAll(L_, null_) THEN <<>> ELSE L_
    /\ UNCHANGED <<et, kr_, kc_, h_, numRows_, numCols_, null_, T_, ub, nset, thrown>>

NextL2 == BeginL2 \/ InsertL2 \/ FinishL2
SpecL2 == Init /\ [][NextL2]_vars

\* ------------------------------------------------ C25
\* the cells inserted so far
InsertedCells ==
    {<<listsEntries(input.lists)[k][1], listsEntries(input.lists)[k][2]>> : k \in 1..input.n}
\* the positions of T that the walk from the root towards (p, q) reads
RECURSIVE pathBits(_, _, _, _, _, _)
pathBits(t, numRows, numCols, p, q, z) ==
    IF z >= Len(t.T) THEN {}
    ELSE {z} \cup (IF At(t.T, z)
                   THEN pathBits(t, numRows \div t.kr, numCols \div t.kc,
                                 p % (numRows \div t.kr), q % (numCols \div t.kc),
                                 rank(t.T, z + 1) * t.kr * t.kc + slot(t, numRows, numCols, p, q))
                   ELSE {})
pathBitsInit(t, p, q) ==
    pathBits(t, t.numRows \div t.kr, t.numCols \div t.kc,
             p % (t.numRows \div t.kr), q % (t.numCols \div t.kc),
             slot(t, t.numRows, t.numCols, p, q))

\* C25: during a Mode L2 build with h >= 2, after every single insertion the
\* partial buffers are a well-formed encoding of the cells inserted so far:
\* |T| and |L| are multiples of kr*kc, the dynamic rank structure answers
\* rank(pos) = number of 1-bits in T[0..pos) for every pos <= |T|, for every z
\* with T[z] = 1 the child group starts at rank(z+1)*kr*kc inside T||L, the
\* 1-bits are exactly the bits on the paths of the inserted cells, and the
\* leaf slots of exactly the inserted cells are written (every new group was
\* spliced in at its index).
C25_PartialBuffers ==
    (mode = "L2build" /\ h_ >= 2 /\ input.n >= 1) =>
        /\ Len(T_) % GroupSize = 0 /\ Len(L_) % GroupSize = 0
        /\ Len(input.R) = Len(T_) + 1
        /\ \A pos \in 0..Len(T_) : dynRank(input.R, pos) = rank(T_, pos)
        /\ \A z \in 0..(Len(T_) - 1) :
              At(T_, z) => (rank(T_, z + 1) + 1) * GroupSize <= Len(T_) + Len(L_)
        /\ Len(T_) + Len(L_) = (1 + OnesOfT) * GroupSize
        /\ {z \in 0..(Len(T_) - 1) : At(T_, z)}
              = UNION {pathBitsInit(Self, c[1], c[2]) : c \in InsertedCells}
        /\ \A i \in AllRows, j \in AllCols :
              IF <<i, j>> \in InsertedCells
              THEN pathAllOnesInit(Self, i, j) /\ getElement(Self, i, j) = storedOne(Self)
              ELSE getElement(Self, i, j) = null_
\* the third insertion has spliced a leaf group in front of an older one, at
\* height 3
C25_Witness ==
    /\ mode = "L2build" /\ h_ = 3 /\ input.n = 3
    /\ Len(L_) = 3 * GroupSize
    /\ \E c \in InsertedCells :
          c = <<listsEntries(input.lists)[3][1], listsEntries(input.lists)[3][2]>>
          /\ \E d \in InsertedCells :
                d # c /\ (c[1] < d[1] \/ (c[1] = d[1] /\ c[2] < d[2]))

\* ------------------------------------------------ C26
\* C26: for every row p < numRows and every structure, the iterative row
\* routines return the same result in the same order as their recursive
\* counterparts: allSuccessorPositionsIterative equals successorsPosInit,
\* firstSuccessorPositionIterative equals firstSuccessorInit and, in the
\* generic class, allSuccessorValuedPositionsIterative equals
\* successorsValPosInit (same (row, column, value) triples).
C26_IterativeEqualsRecursive ==
    Built =>
        \A p \in AllRows :
            /\ allSuccessorPositionsIterative(Self, p) = successorsPosInit(Self, p)
            /\ firstSuccessorPositionIterative(Self, p) = firstSuccessorInit(Self, p)
            /\ et = "generic" =>
                  allSuccessorValuedPositionsIterative(Self, p) = successorsValPosInit(Self, p)
\* height 3 with kr # kc: a row other than 0 with two valued successors
C26_Witness ==
    /\ Built /\ et = "generic" /\ h_ = 3 /\ kr_ # kc_
    /\ \E p \in AllRows :
          /\ p > 0
          /\ Len(successorsValPosInit(Self, p)) >= 2
          /\ successorsValPosInit(Self, p)[1].row = p

\* ------------------------------------------------ getFirstSuccessor, step by step
\* one pass of "while (!stack.empty())" of firstSuccessorPositionIterative
\* slip: the top frame's counters are not advanced after a 0 bit
firstSuccessorStep_stuck(t, stack) ==
    LET n == Len(stack)
        cur == stack[n]
        adv == [stack EXCEPT ![n] = [cur EXCEPT !.dq = @ + cur.nc, !.z = @ + 1, !.j = @ + 1]]
    IN IF cur.j = t.kc THEN [stack |-> SubSeq(stack, 1, n - 1), done |-> FALSE, pos |-> t.numCols]
       ELSE IF cur.z >= Len(t.T)
            THEN (IF present(t, At(t.L, cur.z - Len(t.T)))
                  THEN [stack |-> stack, done |-> TRUE, pos |-> cur.dq]
                  ELSE [stack |-> adv, done |-> FALSE, pos |-> t.numCols])
            ELSE IF At(t.T, cur.z)
                 THEN [stack |-> Append(adv,
                          ExtendedSubrowInfo(cur.nr \div t.kr, cur.nc \div t.kc,
                              cur.p % (cur.nr \div t.kr), cur.dq,
                              rank(t.T, cur.z + 1) * t.kr * t.kc
                                  + t.kc * (cur.p \div (cur.nr \div t.kr)), 0)),
                       done |-> FALSE, pos |-> t.numCols]
                 ELSE [stack |-> stack, done |-> FALSE, pos |-> t.numCols]
firstSuccessorStep(t, stack) ==
    LET n == Len(stack)
        cur == stack[n]
        adv == [stack EXCEPT ![n] = [cur EXCEPT !.dq = @ + cur.nc, !.z = @ + 1, !.j = @ + 1]]
    IN IF cur.j = t.kc THEN [stack |-> SubSeq(stack, 1, n - 1), done |-> FALSE, pos |-> t.numCols]
       ELSE IF cur.z >= Len(t.T)
            THEN (IF present(t, At(t.L, cur.z - Len(t.T)))
                  THEN [stack |-> stack, done |-> TRUE, pos |-> cur.dq]
                  ELSE [stack |-> adv, done |-> FALSE, pos |-> t.numCols])
            ELSE IF At(t.T, cur.z)
                 THEN [stack |-> Append(adv,
                          ExtendedSubrowInfo(cur.nr \div t.kr, cur.nc \div t.kc,
                              cur.p % (cur.nr \div t.kr), cur.dq,
                              rank(t.T, cur.z + 1) * t.kr * t.kc
                                  + t.kc * (cur.p \div (cur.nr \div t.kr)), 0)),
                       done |-> FALSE, pos |-> t.numCols]
                 ELSE [stack |-> adv, done |-> FALSE, pos |-> t.numCols]

Query(p, stack, pos) == [p |-> p, stack |-> stack, pos |-> pos]

\* the call getFirstSuccessor(p) up to the loop; without T there is no stack
StartFS ==
    /\ mode \in {"M", "P"}
    /\ \E p \in 0..(numRows_ - 1) :
         IF L_ = <<>>
         THEN mode' = "FSdone" /\ input' = Query(p, <<>>, numCols_)
         ELSE IF Len(T_) = 0
         THEN mode' = "FSdone" /\ input' = Query(p, <<>>, firstInRow(Self, p * numCols_, 0))
         ELSE /\ mode' = "FS"
              /\ input' = Query(p, <<ExtendedSubrowInfo(numRows_ \div kr_, numCols_ \div kc_,
                                        p % (numRows_ \div kr_), 0,
                                        kc_ * (p \div (numRows_ \div kr_)), 0)>>, numCols_)
    /\ UNCHANGED <<et, kr_, kc_, h_, numRows_, numCols_, null_, T_, L_, ub, nset, thrown>>

\* one test of the loop condition and, if the stack is not empty, one pass
StepFS ==
    /\ mode = "FS"
    /\ IF input.stack = <<>>
       THEN mode' = "FSdone" /\ input' = input
       ELSE LET r == firstSuccessorStep(Self, input.stack)
            IN /\ mode' = IF r.done THEN "FSdone" ELSE "FS"
               /\ input' = [input EXCEPT !.stack = r.stack, !.pos = r.pos]
    /\ UNCHANGED <<et, kr_, kc_, h_, numRows_, numCols_, null_, T_, L_, ub, nset, thrown>>

\* the element type is fixed when the class template is instantiated
InstantiateFS ==
    /\ mode = "none" /\ et = "none"
    /\ et' \in ElemTypes
    /\ UNCHANGED <<mode, input, kr_, kc_, h_, numRows_, numCols_, null_, T_, L_, ub, nset, thrown>>
MatrixFS == et # "none" /\ ConstructMatrix /\ et' = et
PairsFS == et # "none" /\ ConstructPairs /\ et' = et

NextFS == InstantiateFS \/ MatrixFS \/ PairsFS \/ StartFS \/ StepFS
\* the loop is sequential code: a call that can take a pass takes it
\* what a pass changes: the stack's depth or the top frame's counter
progressFS ==
    IF mode = "FS"
    THEN <<mode, Len(input.stack),
           IF input.stack = <<>> THEN 0 ELSE input.stack[Len(input.stack)].j>>
    ELSE <<mode, 0, 0>>
SpecFS == Init /\ [][NextFS]_vars /\ WF_progressFS(StepFS)

\* ------------------------------------------------ C27
\* C27: getFirstSuccessor(i) terminates for every row i < numRows on every
\* constructed structure: each loop step either pops a frame or advances the
\* top frame's child counter j by one (or returns), the explicit stack never
\* holds more than h frames, and the call ends with the answer of
\* firstSuccessorPositionIterative.
C27_FirstSuccessorTerminates ==
    /\ [](mode = "FS" => Len(input.stack) <= h_)
    /\ [](mode = "FSdone" => input.pos = firstSuccessorPositionIterative(Self, input.p))
    /\ [][(mode = "FS" /\ input.stack # <<>>) =>
            LET n == Len(input.stack)
            IN \/ mode' = "FSdone" /\ input'.stack = input.stack
               \/ input'.stack = SubSeq(input.stack, 1, n - 1)
               \/ /\ Len(input'.stack) \in {n, n + 1}
                  /\ input'.stack[n].j = input.stack[n].j + 1
                  /\ SubSeq(input'.stack, 1, n - 1) = SubSeq(input.stack, 1, n - 1)
         ]_vars
    /\ (mode = "FS") ~> (mode = "FSdone")
\* a call at height 3 that found a successor other than column 0 with a full
\* stack
C27_Witness ==
    /\ mode = "FSdone" /\ h_ = 3
    /\ Len(input.stack) = 3
    /\ input.pos > 0 /\ input.pos < numCols_

\* ------------------------------------------------ the indices a query uses
TRead(z) == [buf |-> "T", idx |-> z]
LAccess(y) == [buf |-> "L", idx |-> y]

RECURSIVE checkAccesses(_, _, _, _, _, _)
\* slip: the child group is located with z + 1 instead of rank(z + 1)
checkAccesses_noRank(t, numRows, numCols, p, q, z) ==
    IF z >= Len(t.T) THEN {LAccess(z - Len(t.T))}
    ELSE {TRead(z)} \cup
         IF At(t.T, z)
         THEN checkAccesses(t, numRows \div t.kr, numCols \div t.kc,
                            p % (numRows \div t.kr), q % (numCols \div t.kc),
                            (z + 1) * t.kr * t.kc + slot(t, numRows, numCols, p, q))
         ELSE {}
\* T_[z] and L_[z - T_.size()] of check, in the order of the descent
checkAccesses(t, numRows, numCols, p, q, z) ==
    IF z >= Len(t.T) THEN {LAccess(z - Len(t.T))}
    ELSE {TRead(z)} \cup
         IF At(t.T, z)
         THEN checkAccesses(t, numRows \div t.kr, numCols \div t.kc,
                            p % (numRows \div t.kr), q % (numCols \div t.kc),
                            rank(t.T, z + 1) * t.kr * t.kc + slot(t, numRows, numCols, p, q))
         ELSE {}
checkInitAccesses(t, p, q) ==
    IF t.L = <<>> THEN {}
    ELSE checkAccesses(t, t.numRows \div t.kr, t.numCols \div t.kc,
                       p % (t.numRows \div t.kr), q % (t.numCols \div t.kc),
                       slot(t, t.numRows, t.numCols, p, q))

RECURSIVE setAccesses(_, _, _, _, _, _)
\* T_[z] and the written L_[z - T_.size()] of set
setAccesses(t, numRows, numCols, p, q, z) ==
    IF z >= Len(t.T) THEN {LAccess(z - Len(t.T))}
    ELSE {TRead(z)} \cup
         IF At(t.T, z)
         THEN setAccesses(t, numRows \div t.kr, numCols \div t.kc,
                          p % (numRows \div t.kr), q % (numCols \div t.kc),
                          rank(t.T, z + 1) * t.kr * t.kc + slot(t, numRows, numCols, p, q))
         ELSE {}
setInitAccesses(t, p, q) ==
    IF t.L # <<>>
    THEN setAccesses(t, t.numRows \div t.kr, t.numCols \div t.kc,
                     p % (t.numRows \div t.kr), q % (t.numCols \div t.kc),
                     slot(t, t.numRows, t.numCols, p, q))
    ELSE {}

\* T_[queue.front().z] of every pass and L_[y + j] of the last pass of
\* allSuccessorPositionsIterative; a queue entry is read without a test
RECURSIVE rowAccesses(_, _, _, _, _)
rowAccesses(t, queue, relP, nr, nc) ==
    {TRead(queue[x].z) : x \in 1..Len(queue)} \cup
    IF \E x \in 1..Len(queue) : queue[x].z >= Len(t.T) THEN {}
    ELSE IF nr > 1
    THEN rowAccesses(t, expandLevel(t, queue, relP, nr, nc), relP % nr, nr \div t.kr, nc \div t.kc)
    ELSE UNION {IF At(t.T, queue[x].z)
                THEN {LAccess(rank(t.T, queue[x].z + 1) * t.kr * t.kc
                              + t.kc * (relP \div nr) - Len(t.T) + (j - 1)) : j \in 1..t.kc}
                ELSE {} : x \in 1..Len(queue)}
rowInitAccesses(t, p) ==
    IF t.L = <<>> THEN {}
    ELSE IF Len(t.T) = 0
    THEN {LAccess(p * t.numCols + (x - 1)) : x \in 1..t.numCols}
    ELSE LET nr == t.numRows \div t.kr
             nc == t.numCols \div t.kc
         IN rowAccesses(t, AsTuple([j \in 1..t.kc |->
                               SubrowInfo((j - 1) * nc, t.kc * (p \div nr) + (j - 1))], t.kc),
                        p % nr, nr \div t.kr, nc \div t.kc)

\* T_[z] and L_[z - T_.size()] of rangePos over the children it descends into
RECURSIVE rangeAccesses(_, _, _, _, _, _, _, _)
rangeAccesses(t, numRows, numCols, p1, p2, q1, q2, z) ==
    IF z >= Len(t.T) THEN {LAccess(z - Len(t.T))}
    ELSE {TRead(z)} \cup
         IF At(t.T, z)
         THEN LET y == rank(t.T, z + 1) * t.kr * t.kc
                  nr == numRows \div t.kr
                  nc == numCols \div t.kc
              IN UNION {rangeAccesses(t, nr, nc,
                                      clipLo(i, p1, nr), clipHi(i, p2, nr),
                                      clipLo(j, q1, nc), clipHi(j, q2, nc),
                                      y + t.kc * i + j) :
                        i \in (p1 \div nr)..(p2 \div nr), j \in (q1 \div nc)..(q2 \div nc)}
         ELSE {}
rangeInitAccesses(t, p1, p2, q1, q2) ==
    IF t.L # <<>>
    THEN LET nr == t.numRows \div t.kr
             nc == t.numCols \div t.kc
         IN UNION {rangeAccesses(t, nr, nc,
                                 clipLo(i, p1, nr), clipHi(i, p2, nr),
                                 clipLo(j, q1, nc), clipHi(j, q2, nc),
                                 t.kc * i + j) :
                   i \in (p1 \div nr)..(p2 \div nr), j \in (q1 \div nc)..(q2 \div nc)}
    ELSE {}

InBounds(t, acc) ==
    \A a \in acc : a.idx >= 0 /\ a.idx < (IF a.buf = "T" THEN Len(t.T) ELSE Len(t.L))

\* ------------------------------------------------ C28
\* C28: in every structure produced by a builder, also after setNull calls,
\* every index with which isNotNull / getElement, setNull, getSuccessors and
\* getPositionsInRange read T is below |T| and every index with which they
\* read or write L is below |L|, for all in-range arguments.
C28_IndicesInBounds ==
    Built =>
        /\ \A i \in AllRows, j \in AllCols :
              /\ InBounds(Self, checkInitAccesses(Self, i, j))
              /\ InBounds(Self, setInitAccesses(Self, i, j))
        /\ \A i \in AllRows : InBounds(Self, rowInitAccesses(Self, i))
        /\ \A r \in Rectangles : InBounds(Self, rangeInitAccesses(Self, r[1], r[2], r[3], r[4]))
\* after a setNull at height 3 with kr # kc: a descent that reads two bits of
\* T and ends at the last entry of L, and a row whose passes reach L
C28_Witness ==
    /\ Built /\ h_ = 3 /\ kr_ # kc_ /\ nset >= 1
    /\ \E i \in AllRows, j \in AllCols :
          /\ LAccess(Len(L_) - 1) \in checkInitAccesses(Self, i, j)
          /\ Cardinality(checkInitAccesses(Self, i, j)) = 3
          /\ Cardinality(rowInitAccesses(Self, i)) >= kc_ * 3

\* ------------------------------------------------ C29
\* C29: for a structure whose null is 0 / false, in every state reached by
\* setNull calls, containsElement answers true for every rectangle that still
\* holds a cell different from null; its only wrong answer is true for a
\* rectangle that holds none.
C29_OneSidedStaleness ==
    (Built /\ (et = "bool" \/ null_ = 0)) =>
        \A nn \in {SeqSet(NonNullCells)} :
           \A r \in Rectangles :
              (\E c \in nn : InRectangle(c, r)) =>
                  containsElement(Self, r[1], r[2], r[3], r[4])
\* after a setNull at height 3: one rectangle that was emptied and is still
\* answered true, and another that holds a cell and is answered true
C29_Witness ==
    /\ Built /\ nset >= 1 /\ h_ = 3
    /\ (et = "bool" \/ null_ = 0)
    /\ \E nn \in {SeqSet(NonNullCells)} :
          \E r1, r2 \in Rectangles :
             /\ r1[2] < numRows_ - 1
             /\ ~(\E c \in nn : InRectangle(c, r1))
             /\ containsElement(Self, r1[1], r1[2], r1[3], r1[4])
             /\ r2[1] > 0 /\ r2[2] < numRows_ - 1
             /\ \E c \in nn : InRectangle(c, r2)
             /\ containsElement(Self, r2[1], r2[2], r2[3], r2[4])

\* ------------------------------------------------ C30
\* the builder's insertions applied to the entries es in the given order
buildFromEntries(t, es) ==
    IF t.h = 1
    THEN LET Lv == writeAll(t, Fill(t.kr * t.kc, t.null), es)
         IN [t EXCEPT !.L = IF isAll(Lv, t.null) THEN <<>> ELSE Lv]
    ELSE LET st == insertAllDyn(t, [T |-> <<>>, R |-> <<>>, L |-> <<>>], es)
         IN [t EXCEPT !.T = st.T, !.L = st.L]
Reordered(es, f) == AsTuple([k \in 1..Len(es) |-> es[f[k]]], Len(es))

\* C30 as stated: the T and L that a Mode L2 build ends with depend only on
\* the set of inserted cells: inserting the same entries in any other order
\* gives the same T and the same L.
C30_OrderIndependent ==
    mode = "L2" =>
        \A es \in {listsEntries(input)} :
           \A f \in Permutations(1..Len(es)) :
              \A b \in {buildFromEntries(Self, Reordered(es, f))} :
                 b.T = T_ /\ b.L = L_
\* no two entries of es lie on the same cell
DistinctCells(es) ==
    \A a, b \in 1..Len(es) : a # b => <<es[a][1], es[a][2]>> # <<es[b][1], es[b][2]>>
\* C30, amended: when the entries lie on pairwise distinct cells, inserting
\* them in any other order gives the same T and the same L.
C30_OrderIndependentDistinct ==
    mode = "L2" =>
        \A es \in {listsEntries(input)} :
           DistinctCells(es) =>
              \A f \in Permutations(1..Len(es)) :
                 \A b \in {buildFromEntries(Self, Reordered(es, f))} :
                    b.T = T_ /\ b.L = L_
\* a finished build at height 3 of three entries whose lists were not sorted
\* by column and whose cells lie in three leaf groups
C30_Witness ==
    /\ mode = "L2" /\ h_ = 3
    /\ Len(listsEntries(input)) = 3 /\ DistinctCells(listsEntries(input))
    /\ Len(L_) = 3 * GroupSize
    /\ \E i \in 1..Len(input) :
          Len(input[i]) >= 2 /\ input[i][1][1] > input[i][2][1]
====
